---- MODULE Spec2Model ----
(***************************************************************************)
(* DialScript: the line classifier (LineParser.Parse) and the stateful     *)
(* block validator (DialScriptCompiler.Compile / ValidateLine /            *)
(* ValidateFinalRequirements) of the .NET revision of the compiler.        *)
(*                                                                         *)
(* A source line is a TLA+ string; its characters are read with            *)
(* SubSeq(s, i, i).  Positions handed to the program (caret columns,       *)
(* IndexOf results) are 0-based as in the source; -1 means "none".         *)
(***************************************************************************)
EXTENDS Integers, Sequences, FiniteSets, TLC

(***************************************************************************)
(* Bounds of the model.                                                    *)
(***************************************************************************)
\* longest input file of Spec, in lines
MaxLines == 4

\* longest input file of SpecErrors, in lines
MaxErrorLines == 3

\* most lines after the dialog header in a file of SpecScripts
MaxDialogLines == 2

\* longest input file of SpecOverflow, in lines
MaxOverflowLines == 3

\* int.MaxValue: int.Parse throws OverflowException above it
Int32Max == 2147483647

(***************************************************************************)
(* System.String helpers, as LineParser uses them.                         *)
(***************************************************************************)
Ch(s, n) == SubSeq(s, n, n)

IsWhiteSpace(c) == c \in {" ", "\t"}

IsDigit(c) == c \in {"0", "1", "2", "3", "4", "5", "6", "7", "8", "9"}

UpperLetters == "ABCDEFGHIJKLMNOPQRSTUVWXYZ"

LowerLetters == "abcdefghijklmnopqrstuvwxyz"

ToLowerChar(c) ==
    IF \E k \in 1..Len(UpperLetters) : Ch(UpperLetters, k) = c
    THEN Ch(LowerLetters, CHOOSE k \in 1..Len(UpperLetters) : Ch(UpperLetters, k) = c)
    ELSE c

RECURSIVE ToLower(_)
ToLower(s) ==
    IF Len(s) = 0 THEN "" ELSE ToLowerChar(Ch(s, 1)) \o ToLower(Tail(s))

RECURSIVE TrimStart(_)
TrimStart(s) ==
    IF Len(s) > 0 /\ IsWhiteSpace(Ch(s, 1)) THEN TrimStart(Tail(s)) ELSE s

RECURSIVE TrimEnd(_)
TrimEnd(s) ==
    IF Len(s) > 0 /\ IsWhiteSpace(Ch(s, Len(s)))
    THEN TrimEnd(SubSeq(s, 1, Len(s) - 1))
    ELSE s

Trim(s) == TrimEnd(TrimStart(s))

StartsWith(s, p) == Len(s) >= Len(p) /\ SubSeq(s, 1, Len(p)) = p

StartsWithIgnoreCase(s, p) ==
    Len(s) >= Len(p) /\ ToLower(SubSeq(s, 1, Len(p))) = ToLower(p)

Contains(s, c) == \E k \in 1..Len(s) : Ch(s, k) = c

\* s.IndexOf(c, start): 0-based index of the first c at or after start, or -1
IndexOfFrom(s, c, start) ==
    IF \E k \in (start + 1)..Len(s) : Ch(s, k) = c
    THEN (CHOOSE k \in (start + 1)..Len(s) :
              /\ Ch(s, k) = c
              /\ \A j \in (start + 1)..(k - 1) : Ch(s, j) # c) - 1
    ELSE -1

IndexOf(s, c) == IndexOfFrom(s, c, 0)

\* s[from..]: the suffix that starts at 0-based index from
From(s, from) == SubSeq(s, from + 1, Len(s))

\* s[..to]: the prefix that ends before 0-based index to
Upto(s, to) == SubSeq(s, 1, to)

AllDigits(s) == \A k \in 1..Len(s) : IsDigit(Ch(s, k))

DigitValue(c) == CHOOSE v \in 0..9 : Ch("0123456789", v + 1) = c

\* the decimal value of a string of digits
RECURSIVE DecimalValue(_)
DecimalValue(s) ==
    IF Len(s) = 0 THEN 0
    ELSE 10 * DecimalValue(SubSeq(s, 1, Len(s) - 1)) + DigitValue(Ch(s, Len(s)))

RECURSIVE StripLeadingZeros(_)
StripLeadingZeros(s) ==
    IF Len(s) > 1 /\ Ch(s, 1) = "0" THEN StripLeadingZeros(Tail(s)) ELSE s

\* int.Parse(s) overflows: the decimal value of the digits s is above Int32Max.
\* Decided on the digits, so that no value above Int32Max is ever computed.
ExceedsInt32(s) ==
    LET d == StripLeadingZeros(s)
    IN  \/ Len(d) > 10
        \/ /\ Len(d) = 10
           /\ \/ DecimalValue(SubSeq(d, 1, 9)) > Int32Max \div 10
              \/ /\ DecimalValue(SubSeq(d, 1, 9)) = Int32Max \div 10
                 /\ DigitValue(Ch(d, 10)) > Int32Max % 10

\* value.Split(','): the pieces between commas, in order
RECURSIVE Split(_)
Split(s) ==
    LET k == IndexOf(s, ",")
    IN  IF k < 0 THEN <<s>> ELSE <<Upto(s, k)>> \o Split(From(s, k + 1))

(***************************************************************************)
(* ParsedLine (Models/ParsedLine.cs).  A null string is modelled as "":    *)
(* the program tests the optional strings only with string.IsNullOrEmpty.  *)
(***************************************************************************)
NewParsedLine(type, lineNumber, originalContent) ==
    [Type            |-> type,
     Number          |-> 0,
     Value           |-> "",
     CharacterName   |-> "",
     Text            |-> "",
     Metadata        |-> "",
     LineNumber      |-> lineNumber,
     OriginalContent |-> originalContent,
     ErrorPosition   |-> -1]

Success(type, lineNumber, originalContent) ==
    NewParsedLine(type, lineNumber, originalContent)

Error(errorType, lineNumber, originalContent, errorPosition) ==
    [NewParsedLine(errorType, lineNumber, originalContent)
        EXCEPT !.ErrorPosition = errorPosition]

\* ParsedLine.IsError, and the test ValidateLine makes on the next line's type
IsError(type) == StartsWith(type, "Error")

\* int.Parse left the classifier with an OverflowException: no ParsedLine exists
Thrown(lineNumber, originalContent) ==
    NewParsedLine("OverflowException", lineNumber, originalContent)

\* TryParseMetadata's null result
NoMatch == NewParsedLine("null", 0, "")

(***************************************************************************)
(* The regular expressions of LineParser.                                  *)
(***************************************************************************)
\* ^\[Word\.(\d+)\]$ with RegexOptions.IgnoreCase: does it match
HeaderMatches(s, word) ==
    LET p == "[" \o word \o "."
    IN  /\ Len(s) >= Len(p) + 2
        /\ ToLower(SubSeq(s, 1, Len(p))) = ToLower(p)
        /\ Ch(s, Len(s)) = "]"
        /\ AllDigits(SubSeq(s, Len(p) + 1, Len(s) - 1))

\* group 1 of that match
HeaderDigits(s, word) == SubSeq(s, Len(word) + 3, Len(s) - 1)

ScenePattern(s) == HeaderMatches(s, "Scene")

DialogHeaderPattern(s) == HeaderMatches(s, "Dialog")

\* ^Keyword:\s*(.+)$ with RegexOptions.IgnoreCase, on a trimmed line
KeywordMatches(s, keyword) ==
    /\ StartsWithIgnoreCase(s, keyword)
    /\ Len(TrimStart(From(s, Len(keyword)))) >= 1

\* group 1 of that match: \s* is greedy, (.+) takes the rest
KeywordGroup(s, keyword) == TrimStart(From(s, Len(keyword)))

LevelPattern(s) == KeywordMatches(s, "Level:")

LocationPattern(s) == KeywordMatches(s, "Location:")

CharactersPattern(s) == KeywordMatches(s, "Characters:")

\* ^\[([^\]]*)\]$
BracketPattern(s) ==
    /\ Len(s) >= 2
    /\ Ch(s, 1) = "["
    /\ IndexOf(s, "]") = Len(s) - 1

BracketContent(s) == SubSeq(s, 2, Len(s) - 1)

\* ^(scene|scen|scne|sceen) with RegexOptions.IgnoreCase
SceneTypoPattern(s) ==
    \E p \in {"scene", "scen", "scne", "sceen"} : StartsWithIgnoreCase(s, p)

\* ^(dialog|dialg|dialgo|dailog) with RegexOptions.IgnoreCase
DialogTypoPattern(s) ==
    \E p \in {"dialog", "dialg", "dialgo", "dailog"} : StartsWithIgnoreCase(s, p)

(***************************************************************************)
(* LineParser: the classifier.                                             *)
(***************************************************************************)
ParseHeader(trimmedLine, lineNumber, originalLine) ==
    IF ~Contains(trimmedLine, "]")
    THEN Error("ErrorUnclosedBracket", lineNumber, originalLine, Len(trimmedLine))
    ELSE IF ScenePattern(trimmedLine)
    THEN LET digits == HeaderDigits(trimmedLine, "Scene")
             number == DecimalValue(digits)
         IN  IF ExceedsInt32(digits) THEN Thrown(lineNumber, originalLine)
             ELSE IF number <= 0
             THEN Error("ErrorTypoScene", lineNumber, originalLine, 7)
             ELSE [NewParsedLine("Scene", lineNumber, originalLine)
                      EXCEPT !.Number = number]
    ELSE IF DialogHeaderPattern(trimmedLine)
    THEN LET digits == HeaderDigits(trimmedLine, "Dialog")
             number == DecimalValue(digits)
         IN  IF ExceedsInt32(digits) THEN Thrown(lineNumber, originalLine)
             ELSE IF number <= 0
             THEN Error("ErrorTypoDialog", lineNumber, originalLine, 8)
             ELSE [NewParsedLine("DialogHeader", lineNumber, originalLine)
                      EXCEPT !.Number = number]
    ELSE IF BracketPattern(trimmedLine) /\ Contains(BracketContent(trimmedLine), " ")
    THEN Error("ErrorExtraSpaceInHeader", lineNumber, originalLine, -1)
    ELSE IF /\ BracketPattern(trimmedLine)
            /\ \/ SceneTypoPattern(BracketContent(trimmedLine))
               \/ StartsWithIgnoreCase(BracketContent(trimmedLine), "scene")
    THEN Error("ErrorTypoScene", lineNumber, originalLine, 1)
    ELSE IF /\ BracketPattern(trimmedLine)
            /\ \/ DialogTypoPattern(BracketContent(trimmedLine))
               \/ StartsWithIgnoreCase(BracketContent(trimmedLine), "dialog")
    THEN Error("ErrorTypoDialog", lineNumber, originalLine, 1)
    ELSE Error("ErrorTypoScene", lineNumber, originalLine, 1)

TryParseMetadata(trimmedLine, lineNumber, originalLine) ==
    IF LevelPattern(trimmedLine)
    THEN [NewParsedLine("Level", lineNumber, originalLine)
             EXCEPT !.Value = Trim(KeywordGroup(trimmedLine, "Level:"))]
    ELSE IF LocationPattern(trimmedLine)
    THEN [NewParsedLine("Location", lineNumber, originalLine)
             EXCEPT !.Value = Trim(KeywordGroup(trimmedLine, "Location:"))]
    ELSE IF CharactersPattern(trimmedLine)
    THEN [NewParsedLine("Characters", lineNumber, originalLine)
             EXCEPT !.Value = Trim(KeywordGroup(trimmedLine, "Characters:"))]
    ELSE IF /\ StartsWithIgnoreCase(trimmedLine, "leve")
            /\ Contains(trimmedLine, ":")
            /\ ~StartsWithIgnoreCase(trimmedLine, "level:")
    THEN Error("ErrorTypoLevel", lineNumber, originalLine, -1)
    ELSE IF /\ StartsWithIgnoreCase(trimmedLine, "locatio")
            /\ Contains(trimmedLine, ":")
            /\ ~StartsWithIgnoreCase(trimmedLine, "location:")
    THEN Error("ErrorTypoLocation", lineNumber, originalLine, -1)
    ELSE IF /\ StartsWithIgnoreCase(trimmedLine, "character")
            /\ Contains(trimmedLine, ":")
            /\ ~StartsWithIgnoreCase(trimmedLine, "characters:")
    THEN Error("ErrorTypoCharacters", lineNumber, originalLine, -1)
    ELSE NoMatch

ParseDialogLine(line, lineNumber, originalLine) ==
    LET trimmedLine == Trim(line)
        colonIndex  == IndexOf(trimmedLine, ":")
        name        == Trim(Upto(trimmedLine, colonIndex))
        afterColon  == From(trimmedLine, colonIndex + 1)
        textPart    == Trim(afterColon)
        metaStart   == IndexOf(textPart, "{")
        metaEnd     == IndexOfFrom(textPart, "}", metaStart)
        afterMeta   == Trim(From(textPart, metaEnd + 1))
    IN  IF Len(line) > 0 /\ IsWhiteSpace(Ch(line, 1)) /\ Contains(Trim(line), ":")
        THEN Error("ErrorLeadingSpace", lineNumber, originalLine, -1)
        ELSE IF colonIndex < 0
        THEN Error("Unknown", lineNumber, originalLine, -1)
        ELSE IF Len(name) = 0
        THEN Error("ErrorEmptyName", lineNumber, originalLine, -1)
        ELSE IF Len(afterColon) > 0 /\ ~IsWhiteSpace(Ch(afterColon, 1))
        THEN Error("ErrorNoSpaceAfterColon", lineNumber, originalLine, -1)
        ELSE IF Len(textPart) = 0
        THEN Error("ErrorEmptyText", lineNumber, originalLine, -1)
        ELSE IF metaStart >= 0 /\ metaEnd < 0
        THEN Error("ErrorUnclosedBracket", lineNumber, originalLine,
                   IndexOf(originalLine, "{"))
        ELSE IF metaStart >= 0 /\ Len(afterMeta) > 0
        THEN Error("ErrorMetaNotAtEnd", lineNumber, originalLine, -1)
        ELSE IF metaStart >= 0
        THEN [NewParsedLine("Dialog", lineNumber, originalLine)
                 EXCEPT !.CharacterName = name,
                        !.Text = Trim(Upto(textPart, metaStart)),
                        !.Metadata = SubSeq(textPart, metaStart + 1, metaEnd + 1)]
        ELSE [NewParsedLine("Dialog", lineNumber, originalLine)
                 EXCEPT !.CharacterName = name,
                        !.Text = textPart]

Parse(line, lineNumber) ==
    LET originalLine   == line
        trimmedLine    == Trim(line)
        metadataResult == TryParseMetadata(trimmedLine, lineNumber, originalLine)
    IN  IF Len(trimmedLine) = 0
        THEN Success("Empty", lineNumber, originalLine)
        ELSE IF StartsWith(trimmedLine, "//")
        THEN [NewParsedLine("Comment", lineNumber, originalLine)
                 EXCEPT !.Value = TrimStart(From(trimmedLine, 2))]
        ELSE IF StartsWith(trimmedLine, "[")
        THEN ParseHeader(trimmedLine, lineNumber, originalLine)
        ELSE IF metadataResult.Type # "null"
        THEN metadataResult
        ELSE ParseDialogLine(line, lineNumber, originalLine)

(***************************************************************************)
(* The input files of the model.  Spec compiles every file of at most      *)
(* MaxLines lines drawn from SampleLines (the lines of a well-formed       *)
(* script, a second scene, an undeclared name, an unknown line and one     *)
(* pre-classified error); SpecErrors compiles every file of at most        *)
(* MaxErrorLines lines drawn from ErrorLines (one line for each error kind *)
(* the classifier produces, and the two headers that move the validator    *)
(* into a scene and into a dialog).                                        *)
(***************************************************************************)
SampleLines ==
    {"[Scene.1]", "[Scene.2]", "[Dialog.1]",
     "Level: 1", "Location: X", "Characters: A, B",
     "A: Hi", "b: Hi",
     "", "// c", "Hello", "A:Hi"}

ErrorLines ==
    {"[Scene.1]", "[Dialog.1]",
     ": Hi",            \* ErrorEmptyName
     "A:",              \* ErrorEmptyText
     "A:Hi",            \* ErrorNoSpaceAfterColon
     "A: Hi {x} y",     \* ErrorMetaNotAtEnd
     "[Scene.1",        \* ErrorUnclosedBracket
     "[Scene. 1]",      \* ErrorExtraSpaceInHeader
     " A: Hi",          \* ErrorLeadingSpace
     "[Scen.1]",        \* ErrorTypoScene
     "[Dialg.1]",       \* ErrorTypoDialog
     "Leve: 1",         \* ErrorTypoLevel
     "Locatio: X",      \* ErrorTypoLocation
     "Character: A"}    \* ErrorTypoCharacters

Files == UNION {[1..n -> SampleLines] : n \in 0..MaxLines}

\* headers whose number is at and beyond int.MaxValue, among ordinary lines
OverflowLines ==
    {"[Scene.1]", "[Dialog.1]", "", "A: Hi",
     "[Scene.2147483647]", "[Scene.2147483648]", "[Dialog.9999999999]"}

ErrorFiles == UNION {[1..n -> ErrorLines] : n \in 0..MaxErrorLines}

OverflowFiles == UNION {[1..n -> OverflowLines] : n \in 0..MaxOverflowLines}

\* the lines of a script in the shape of the README example: what may come
\* before the scene header, the metadata lines, and what may follow the dialog
\* header (C is not a declared character; Leven is)
ScriptHeads == {<<"[Scene.1]">>, <<"", "[Scene.1]">>, <<"// c", "[Scene.1]">>}

ScriptMetadataLines == {"Level: 1", "Location: X", "Characters: A, B, Leven"}

ScriptDialogLines == {"A: Hi", "B: Hi {k: v}", "Leven: Hi", "C: Hi", "// c", ""}

ScriptFiles ==
    {head \o block \o <<"[Dialog.1]">> \o tail :
        head \in ScriptHeads,
        block \in [1..3 -> ScriptMetadataLines],
        tail \in UNION {[1..n -> ScriptDialogLines] : n \in 0..MaxDialogLines}}

\* the lines the classifier's rules are tried on: the two headers that move the
\* validator into a scene and into a dialog, bracket headers that are misspelt,
\* numbered zero or left open, metadata keywords in other cases and with
\* nothing after the colon, and dialog lines with braces
ClassifyLines ==
    {"[Scene.1]", "[Dialog.1]",
     "[Scen.1]", "[Scen. 1]",
     "[Dialo.1]", "[Foo.1]",
     "[Scene.0]", "[Dialog.0]",
     "Level:", "LEVEL: 1", "Levl: 1", "Levl:: 1",
     "Characters: A, B", "characters: C,, A",
     "Hello", "Hello {Emotion: happy}",
     "A: Hi {k: v}", "A: Hi {x", "A: Hi {x} y", "A{}: Hi {x",
     "A: {k: v}"}

MaxClassifyLines == 3

ClassifyFiles == UNION {[1..n -> ClassifyLines] : n \in 0..MaxClassifyLines}

\* every line of the model's files
ModelLines ==
    SampleLines \cup ErrorLines \cup OverflowLines
        \cup ScriptMetadataLines \cup ScriptDialogLines \cup ClassifyLines

\* Parse is a pure function of the line: its results on the lines of the model
\* are computed once and looked up by Classify
ParseTable == {Parse(line, 0) : line \in ModelLines}

\* LineParser.Parse(line, lineNumber), by lookup where the line is in the table
Classify(line, lineNumber) ==
    IF line \in ModelLines
    THEN [(CHOOSE p \in ParseTable : p.OriginalContent = line)
             EXCEPT !.LineNumber = lineNumber]
    ELSE Parse(line, lineNumber)

(***************************************************************************)
(* The C revision of the tool: parse_line (part_004), whose line buffer is *)
(* cut in place, and compile (part_006).                                   *)
(***************************************************************************)
\* is_typo(input, expected), for an expected keyword of five letters or more
is_typo(input, expected) ==
    LET len_in  == Len(input)
        len_exp == Len(expected)
        min_len == IF len_in < len_exp THEN len_in ELSE len_exp
        matches == Cardinality({k \in 1..min_len :
                        ToLowerChar(Ch(input, k)) = ToLowerChar(Ch(expected, k))})
    IN  IF len_in < len_exp - 2 \/ len_in > len_exp + 2 THEN FALSE
        ELSE IF len_in = len_exp /\ ToLower(input) = ToLower(expected) THEN FALSE
        ELSE (matches * 100) \div len_exp > 60

\* find_similar_header(word): the keyword the word is taken to be a typo of, or
\* NULL (the empty string here).  The test made on each keyword is is_typo's
find_similar_header(word) ==
    IF is_typo(word, "Scene") THEN "Scene"
    ELSE IF is_typo(word, "Dialog") THEN "Dialog"
    ELSE ""

\* the longest prefix of s made of digits
RECURSIVE DigitPrefix(_)
DigitPrefix(s) ==
    IF Len(s) > 0 /\ IsDigit(Ch(s, 1))
    THEN Ch(s, 1) \o DigitPrefix(Tail(s))
    ELSE ""

\* sscanf's %d on s: blanks are skipped, a sign is read, then digits.  The
\* conversion of a number that an int cannot hold is undefined; the scripts given
\* to the C tool hold none, and such digits are read here as strtol reads them
ScanInt(s) ==
    LET t        == TrimStart(s)
        signed   == Len(t) > 0 /\ Ch(t, 1) \in {"-", "+"}
        digits   == DigitPrefix(IF signed THEN Tail(t) ELSE t)
        absolute == IF ExceedsInt32(digits) THEN Int32Max
                    ELSE DecimalValue(StripLeadingZeros(digits))
    IN  [ok     |-> Len(digits) > 0,
         number |-> IF Len(digits) = 0 THEN 0
                    ELSE IF signed /\ Ch(t, 1) = "-" THEN 0 - absolute
                    ELSE absolute]

\* sscanf(line, "[%63[^.]", header): the characters after '[' up to the first '.'
HeaderWord(line) ==
    IF ~StartsWith(line, "[") THEN ""
    ELSE LET body == Tail(line)
             dot  == IndexOf(body, ".")
         IN  IF dot < 0 THEN body ELSE Upto(body, dot)

\* a ParsedLine of parser.h; a NULL pointer is modelled by the empty string, and
\* buffer is what the line buffer holds, as a C string, after parse_line
CParsedLine(type, buffer) ==
    [type |-> type, number |-> 0, value |-> "", name |-> "", text |-> "",
     meta |-> "", hasMeta |-> FALSE, buffer |-> buffer]

\* the part of parse_line entered when a colon stands before any '{'
CParseDialog(line, colon) ==
    LET before     == Upto(line, colon)
        name       == Trim(before)
        buffer     == IF name = "" THEN before ELSE TrimEnd(before)
        rawText    == TrimStart(From(line, colon + 1))
        metaAt     == IndexOf(rawText, "{")
        closing    == IF metaAt < 0 THEN -1 ELSE IndexOfFrom(rawText, "}", metaAt)
        afterMeta  == IF closing < 0 THEN "" ELSE TrimStart(From(rawText, closing + 1))
        \* the text is cut before '{'; a '{' that starts the text is itself
        \* overwritten, which leaves text and meta both empty
        text       == IF metaAt < 0 THEN rawText
                      ELSE IF metaAt = 0 THEN ""
                      ELSE TrimEnd(Upto(rawText, metaAt))
        meta       == IF metaAt <= 0 THEN "" ELSE From(rawText, metaAt)
        afterColon == IF colon + 1 < Len(line) THEN Ch(line, colon + 2) ELSE ""
    IN  IF afterColon # " " /\ afterColon # ""
        THEN CParsedLine("LINE_ERROR_NO_SPACE_AFTER_COLON", line)
        ELSE IF closing >= 0 /\ afterMeta # ""
        THEN CParsedLine("LINE_ERROR_META_NOT_AT_END", buffer)
        ELSE IF name = ""
        THEN CParsedLine("LINE_ERROR_EMPTY_NAME", buffer)
        ELSE IF text = ""
        THEN CParsedLine("LINE_ERROR_EMPTY_TEXT", buffer)
        ELSE [CParsedLine("LINE_DIALOG", buffer)
                 EXCEPT !.name = name, !.text = text, !.meta = meta,
                        !.hasMeta = metaAt >= 0]

parse_line(line) ==
    LET metaStart == IndexOf(line, "{")
        firstColon == IndexOf(line, ":")
        colon == IF firstColon >= 0 /\ metaStart >= 0 /\ firstColon > metaStart
                 THEN -1 ELSE firstColon
        keyword == IF firstColon >= 0 THEN TrimEnd(Upto(line, firstColon)) ELSE ""
    IN  IF line = "" THEN CParsedLine("LINE_EMPTY", line)
        ELSE IF StartsWith(line, "//")
        THEN [CParsedLine("LINE_COMMENT", line) EXCEPT !.value = From(line, 2)]
        ELSE IF StartsWith(line, "[Scene.") /\ ScanInt(From(line, 7)).ok
        THEN [CParsedLine("LINE_SCENE", line)
                 EXCEPT !.number = ScanInt(From(line, 7)).number]
        ELSE IF StartsWith(line, "[Dialog.") /\ ScanInt(From(line, 8)).ok
        THEN [CParsedLine("LINE_DIALOG_HEADER", line)
                 EXCEPT !.number = ScanInt(From(line, 8)).number]
        ELSE IF StartsWith(line, "Level:")
        THEN [CParsedLine("LINE_LEVEL", line) EXCEPT !.value = TrimStart(From(line, 6))]
        ELSE IF StartsWith(line, "Location:")
        THEN [CParsedLine("LINE_LOCATION", line)
                 EXCEPT !.value = TrimStart(From(line, 9))]
        ELSE IF StartsWith(line, "Characters:")
        THEN [CParsedLine("LINE_CHARACTERS", line)
                 EXCEPT !.value = TrimStart(From(line, 11))]
        ELSE IF colon >= 0 THEN CParseDialog(line, colon)
        ELSE IF StartsWith(line, "[") /\ is_typo(HeaderWord(line), "Scene")
        THEN CParsedLine("LINE_ERROR_TYPO_SCENE", line)
        ELSE IF StartsWith(line, "[") /\ is_typo(HeaderWord(line), "Dialog")
        THEN CParsedLine("LINE_ERROR_TYPO_DIALOG", line)
        ELSE IF firstColon >= 0 /\ firstColon < 64 /\ is_typo(keyword, "Level")
        THEN CParsedLine("LINE_ERROR_TYPO_LEVEL", line)
        ELSE IF firstColon >= 0 /\ firstColon < 64 /\ is_typo(keyword, "Location")
        THEN CParsedLine("LINE_ERROR_TYPO_LOCATION", line)
        ELSE IF firstColon >= 0 /\ firstColon < 64 /\ is_typo(keyword, "Characters")
        THEN CParsedLine("LINE_ERROR_TYPO_CHARACTERS", line)
        ELSE CParsedLine("LINE_UNKNOWN", line)

\* strtok(str, ","), on the text the call starts from (the argument, or what the
\* saved pointer of the previous call points to): leading commas are skipped, the
\* token ends at the next comma, and the saved pointer is left after that comma
strtok(str) ==
    LET RECURSIVE SkipCommas(_)
        SkipCommas(s) == IF Len(s) > 0 /\ Ch(s, 1) = "," THEN SkipCommas(Tail(s)) ELSE s
        start == SkipCommas(str)
        comma == IndexOf(start, ",")
    IN  IF start = "" THEN [found |-> FALSE, token |-> "", save |-> ""]
        ELSE IF comma < 0 THEN [found |-> TRUE, token |-> start, save |-> ""]
        ELSE [found |-> TRUE, token |-> Upto(start, comma), save |-> From(start, comma + 1)]

(***************************************************************************)
(* find_similar_character of the first fixer (part_003).  The lengths are  *)
(* size_t, so `len_exp - 2` wraps below zero; a wrapped difference is kept *)
(* as the distance it fell below zero, never as the number itself.         *)
(***************************************************************************)
\* a - b in size_t
SizeSub(a, b) ==
    IF a >= b THEN [wrapped |-> FALSE, value |-> a - b]
              ELSE [wrapped |-> TRUE, value |-> b - a]

\* n < d in size_t, for a string length n and a difference d: a wrapped
\* difference is within 2 of the top of the range, above every string length
SizeLess(n, d) == IF d.wrapped THEN TRUE ELSE n < d.value

\* one turn of the loop (lines 37-73) on the token strtok returned: where the
\* token leaves the turn, and whether it is returned as the correct name
SimilarCharacterStep(name, raw) ==
    LET token     == Trim(raw)
        len_in    == Len(name)
        len_exp   == Len(token)
        min_len   == IF len_in < len_exp THEN len_in ELSE len_exp
        matches   == Cardinality({k \in 1..min_len :
                          ToLowerChar(Ch(name, k)) = ToLowerChar(Ch(token, k))})
        threshold == IF len_exp <= 4 THEN 20 ELSE 60
    IN  IF SizeLess(len_in, SizeSub(len_exp, 2)) \/ len_in > len_exp + 2
        THEN [at |-> "length", token |-> token, similar |-> FALSE]
        ELSE IF len_in = len_exp /\ ToLower(name) = ToLower(token)
        THEN [at |-> "exact", token |-> token, similar |-> FALSE]
        ELSE [at |-> "score", token |-> token,
              similar |-> (matches * 100) \div len_exp > threshold]

(***************************************************************************)
(* The fixer of the C revision (fixer.c, the refactored revision).         *)
(***************************************************************************)
\* the value of a set of one element: The({e(x) : x \in {v}}) is e at x = v,
\* with v computed once
The(S) == CHOOSE v \in S : TRUE

\* matrix[i][j] from the cells above it, left of it and diagonal to it
LevenshteinCell(above, left, diagonal, cost) ==
    LET side == IF above + 1 < left + 1 THEN above + 1 ELSE left + 1
    IN  IF side > diagonal + cost THEN diagonal + cost ELSE side

\* one row of the matrix of levenshtein_distance, from the row before it
RECURSIVE LevenshteinRow(_, _, _, _)
LevenshteinRow(previous, c, s2, row) ==
    LET j    == Len(row)
        cost == IF ToLowerChar(c) = ToLowerChar(Ch(s2, j)) THEN 0 ELSE 1
    IN  IF j > Len(s2) THEN row
        ELSE The({LevenshteinRow(previous, c, s2, Append(row, cell)) :
                      cell \in {LevenshteinCell(previous[j + 1], row[j], previous[j], cost)}})

RECURSIVE LevenshteinRows(_, _, _, _)
LevenshteinRows(s1, s2, n, previous) ==
    IF n > Len(s1) THEN previous
    ELSE The({LevenshteinRows(s1, s2, n + 1, row) :
                  row \in {LevenshteinRow(previous, Ch(s1, n), s2, <<n>>)}})

levenshtein_distance(s1, s2) ==
    LevenshteinRows(s1, s2, 1, [j \in 1..(Len(s2) + 1) |-> j - 1])[Len(s2) + 1]

\* find_similar: the first candidate at distance 0 or 1 that is not the input
\* itself up to case; "" stands for NULL
RECURSIVE find_similar(_, _)
find_similar(input, candidates) ==
    IF candidates = << >> THEN ""
    ELSE LET cand == Head(candidates)
         IN  IF levenshtein_distance(input, cand) <= 1
                /\ ~(Len(input) = Len(cand) /\ ToLower(input) = ToLower(cand))
             THEN cand
             ELSE find_similar(input, Tail(candidates))

\* the result of one fix function: whether it fired, and the buffer after it
Fixed(text) == [fired |-> TRUE, fixed |-> text]
NotFixed(text) == [fired |-> FALSE, fixed |-> text]

fix_header_typos(fixed) ==
    LET header_word == HeaderWord(fixed)
        dot         == IndexOf(fixed, ".")
        num         == ScanInt(From(fixed, dot + 1))
        correct     == find_similar(header_word, <<"Scene", "Dialog">>)
    IN  IF ~StartsWith(fixed, "[") \/ header_word = "" \/ dot < 0 \/ ~num.ok
        THEN NotFixed(fixed)
        ELSE IF correct # ""
        THEN Fixed("[" \o correct \o "." \o ToString(num.number) \o "]")
        ELSE NotFixed(fixed)

MetadataFixes ==
    << <<"Levl:", "Level:">>, <<"Lvl:", "Level:">>, <<"level:", "Level:">>,
       <<"Locaton:", "Location:">>, <<"Locatin:", "Location:">>, <<"location:", "Location:">>,
       <<"Chracters:", "Characters:">>, <<"Characers:", "Characters:">>,
       <<"characters:", "Characters:">> >>

\* the table's entries end with the colon, and the character looked at is the
\* one after the entry
RECURSIVE FixMetadataFrom(_, _)
FixMetadataFrom(fixed, n) ==
    IF n > Len(MetadataFixes) THEN NotFixed(fixed)
    ELSE LET wrong == MetadataFixes[n][1]
             right == MetadataFixes[n][2]
         IN  IF StartsWithIgnoreCase(fixed, wrong) /\ Len(fixed) > Len(wrong)
                /\ Ch(fixed, Len(wrong) + 1) = ":"
             THEN Fixed(right \o From(fixed, Len(wrong)))
             ELSE FixMetadataFrom(fixed, n + 1)

fix_metadata_typos(fixed) == FixMetadataFrom(fixed, 1)

\* the colon the fixer looks at: the first one, unless a '{' stands before it
FixerColon(fixed) ==
    LET colon == IndexOf(fixed, ":")
        meta  == IndexOf(fixed, "{")
    IN  IF colon < 0 \/ (meta >= 0 /\ colon > meta) THEN -1 ELSE colon

fix_missing_space_after_colon(fixed) ==
    LET colon == FixerColon(fixed)
    IN  IF colon >= 0 /\ colon + 1 < Len(fixed) /\ Ch(fixed, colon + 2) # " "
        THEN Fixed(Upto(fixed, colon + 1) \o " " \o From(fixed, colon + 1))
        ELSE NotFixed(fixed)

fix_metadata_position(fixed) ==
    LET meta    == IndexOf(fixed, "{")
        closing == IF meta < 0 THEN -1 ELSE IndexOfFrom(fixed, "}", meta)
        after   == IF closing < 0 THEN "" ELSE Trim(From(fixed, closing + 1))
    IN  IF meta < 0 \/ closing < 0 \/ after = "" THEN NotFixed(fixed)
        ELSE Fixed(Trim(Upto(fixed, meta)) \o " " \o after \o " "
                   \o SubSeq(fixed, meta + 1, closing + 1))

\* the candidates of fix_character_name_typos: the tokens of the list, whose
\* trailing blanks trim cuts in place; the pointer trim returns is dropped, so a
\* token keeps its leading blanks
RECURSIVE Candidates(_)
Candidates(characters) ==
    LET t == strtok(characters)
    IN  IF ~t.found THEN << >>
        ELSE <<(IF Trim(t.token) = "" THEN t.token ELSE TrimEnd(t.token))>>
                 \o Candidates(t.save)

\* what the array name may hold after the bytes before the colon: the array is
\* not initialised and strncpy adds no terminator, so the string read from it
\* runs on through whatever the stack held
StackGarbage == {"", "n", "#"}

fix_character_name_typos(fixed, characters, garbage) ==
    LET colon   == FixerColon(fixed)
        name    == Upto(fixed, colon) \o garbage
        correct == find_similar(IF Trim(name) = "" THEN name ELSE TrimEnd(name),
                                Candidates(characters))
    IN  IF characters = "" \/ colon < 0 THEN NotFixed(fixed)
        ELSE IF correct # "" THEN Fixed(correct \o From(fixed, colon))
        ELSE NotFixed(fixed)

\* fix_line reaches fix_character_name_typos and its calls of strtok, which run
\* through the whole list
ReachesStrtok(original, characters) ==
    /\ original # "" /\ ~StartsWith(original, "//")
    /\ ~fix_header_typos(original).fired
    /\ ~fix_metadata_typos(original).fired
    /\ ~fix_missing_space_after_colon(original).fired
    /\ ~fix_metadata_position(original).fired
    /\ characters # "" /\ FixerColon(original) >= 0

\* C38: every fix function is tried, each on what the one before it left
fix_line_AppliesAll(original, characters, garbage) ==
    LET header == fix_header_typos(original)
        keyword == fix_metadata_typos(header.fixed)
        space == fix_missing_space_after_colon(keyword.fixed)
        position == fix_metadata_position(space.fixed)
        name == fix_character_name_typos(position.fixed, characters, garbage)
    IN  IF original = "" \/ StartsWith(original, "//")
        THEN [fired |-> FALSE, fixed |-> original, tokenised |-> FALSE]
        ELSE [fired |-> header.fired \/ keyword.fired \/ space.fired
                          \/ position.fired \/ name.fired,
              fixed |-> name.fixed,
              tokenised |-> ReachesStrtok(original, characters)]

\* fix_line: the first fix function that fires ends the chain
fix_line(original, characters, garbage) ==
    LET out == IF original = "" \/ StartsWith(original, "//") THEN NotFixed(original)
               ELSE IF fix_header_typos(original).fired THEN fix_header_typos(original)
               ELSE IF fix_metadata_typos(original).fired
               THEN fix_metadata_typos(original)
               ELSE IF fix_missing_space_after_colon(original).fired
               THEN fix_missing_space_after_colon(original)
               ELSE IF fix_metadata_position(original).fired
               THEN fix_metadata_position(original)
               ELSE fix_character_name_typos(original, characters, garbage)
    IN  [fired |-> out.fired, fixed |-> out.fixed,
         tokenised |-> ReachesStrtok(original, characters)]

\* the list auto_fix hands to fix_line for line n (from 1): what follows
\* "Characters:" on the nearest line at or before n that starts with it
RECURSIVE CharactersFor(_, _)
CharactersFor(file, n) ==
    IF n < 1 THEN ""
    ELSE IF StartsWith(file[n], "Characters:") THEN From(file[n], 11)
    ELSE CharactersFor(file, n - 1)

(***************************************************************************)
(* The scripts the C tool is run on.                                       *)
(***************************************************************************)
\* the scripts given to the C tool: a scene with its metadata, a dialog header
\* and up to MaxFixLines lines after it
FixHeads ==
    {<<"[Scene.1]", "Level: 1", "Location: X", characters, "[Dialog.1]">> :
         characters \in {"Characters: Alan, Beth", "Characters:Alan,Beth"}}

FixLines ==
    {"Alan: Hi", "Beth: Hi {m}", "Alann: Hi", "Alann:Hi", "Beth: Hi {m} x",
     "[Dialg.2]", "[Dialog.2", "Hello", "// c", "Zed: Hi {m",
     "Characters: Alann"}

MaxFixLines == 2

\* the width of a char, to which compile converts its count
CharBits == 8

\* the scripts that make compile count up to the ends of the range of a char
StatusCounts == {2 ^ (CharBits - 1) - 1, 2 ^ (CharBits - 1), 2 ^ CharBits}

StatusFiles ==
    {<<"[Scene.1]", "Level: 1", "Location: X", "Characters: A">>
         \o [n \in 1..count |-> "Hello"] : count \in StatusCounts}

FixFiles ==
    {head \o tail : head \in FixHeads,
                    tail \in UNION {[1..n -> FixLines] : n \in 0..MaxFixLines}}
        \cup StatusFiles

\* the scripts given to two invocations of compile in one process
MaxConcurrentLines == 2

ConcurrentFiles ==
    {<<"[Scene.1]", "Level: 1", "Location: X", characters, "[Dialog.1]">> \o tail :
         characters \in {"Characters: Alan, Beth", "Characters: Carl, Dana"},
         tail \in UNION {[1..n -> {"Alan: Hi", "Beth: Hi", "Dana: Hi"}] :
                             n \in 1..MaxConcurrentLines}}

\* every line the C tool can meet on these scripts: the lines as written, the
\* lines as fix_line rewrites them, and the buffers as parse_line cuts them
PoolLines ==
    UNION {{file[n] : n \in 1..Len(file)} : file \in FixFiles \cup ConcurrentFiles}

PoolLists ==
    {""} \cup {From(line, 11) : line \in {l \in PoolLines : StartsWith(l, "Characters:")}}

\* a function written out in full, entry by entry
Tabulated(f) == f @@ << >>

FixLineTable ==
    Tabulated([input \in PoolLines \X PoolLists \X StackGarbage |->
                   fix_line(input[1], input[2], input[3])])

FixLine(original, characters, garbage) == FixLineTable[<<original, characters, garbage>>]

WrittenLines ==
    PoolLines \cup {FixLineTable[input].fixed : input \in DOMAIN FixLineTable}

ToolLines == WrittenLines \cup {parse_line(line).buffer : line \in WrittenLines}

ParseLineTable == Tabulated([line \in ToolLines |-> parse_line(line)])

ParseLine(line) == ParseLineTable[line]

\* the texts strtok is called on: the lists compile keeps, and what the saved
\* pointer points to after each call
RECURSIVE SavedTexts(_)
SavedTexts(str) ==
    {str} \cup (IF strtok(str).found THEN SavedTexts(strtok(str).save) ELSE {})

StrtokTable ==
    Tabulated([str \in UNION {SavedTexts(TrimStart(list)) : list \in PoolLists} |->
                   strtok(str)])

Strtok(str) == StrtokTable[str]

(***************************************************************************)
(* compile of the C revision (part_006), as the steps of one invocation.   *)
(* An invocation's locals are a record; strtok's saved pointer is outside  *)
(* it, and is passed to a step and returned by it.                         *)
(***************************************************************************)
\* the locals of an invocation that has not been entered
IdleRun ==
    [pc |-> "idle", lines |-> << >>, original_lines |-> << >>, total_lines |-> 0,
     i |-> 0, error |-> 0, scene |-> 0, dialog |-> FALSE, characters |-> "",
     has_scene |-> FALSE, has_level |-> FALSE, has_location |-> FALSE,
     has_chars |-> FALSE, p |-> CParsedLine("LINE_EMPTY", ""), t |-> Strtok(""),
     messages |-> << >>, result |-> 0]

\* the lines are read and the locals are set (lines 48-68)
ReadRun(file) ==
    [IdleRun EXCEPT !.pc = "loop", !.lines = file, !.original_lines = file,
                    !.total_lines = Len(file)]

\* the macros fail and fail_at: the diagnostic is reported for line i + 1
fail_at(r, msg, pos) ==
    [r EXCEPT !.error = @ + 1, !.messages = Append(@, <<r.i + 1, msg, pos>>)]

fail(r, msg) == fail_at(r, msg, 0)

\* fail or fail_at with a message and its position
fail_message(r, message) == fail_at(r, message[1], message[2])

\* the macro fail_final: the diagnostic is reported for line total_lines
fail_final(r, msg) ==
    [r EXCEPT !.error = @ + 1, !.messages = Append(@, <<r.total_lines, msg, 0>>)]

\* the end of an iteration of the loop
EndIteration(r) == [r EXCEPT !.i = @ + 1, !.pc = "loop"]

\* the messages of the cases that only report (lines 177-203)
CErrorMessage(type) ==
    CASE type = "LINE_ERROR_EMPTY_NAME"      -> <<"Empty name before ':'", 0>>
      [] type = "LINE_ERROR_TYPO_SCENE"      -> <<"Did you mean [Scene.N]?", 1>>
      [] type = "LINE_ERROR_TYPO_DIALOG"     -> <<"Did you mean [Dialog.N]?", 1>>
      [] type = "LINE_ERROR_TYPO_LEVEL"      -> <<"Did you mean 'Level:'?", 0>>
      [] type = "LINE_ERROR_TYPO_LOCATION"   -> <<"Did you mean 'Location:'?", 0>>
      [] type = "LINE_ERROR_TYPO_CHARACTERS" -> <<"Did you mean 'Characters:'?", 0>>

\* case LINE_EMPTY: in a dialog block the next line is parsed, which cuts its
\* buffer as well
EmptyInDialog(r, next) ==
    LET cut == [r EXCEPT !.lines[r.i + 2] = next.buffer]
    IN  IF next.type # "LINE_DIALOG_HEADER" /\ next.type # "LINE_COMMENT"
        THEN fail(cut, "Empty line inside dialog block")
        ELSE cut

CCaseEmpty(r) ==
    IF r.dialog /\ r.i + 1 < r.total_lines
    THEN EmptyInDialog(r, ParseLine(r.lines[r.i + 2]))
    ELSE r

CCaseScene(r, p) ==
    IF r.has_scene THEN fail(r, "Only one [Scene.X] allowed")
    ELSE IF p.number <= 0 THEN fail_at(r, "Scene number must be > 0", 7)
    ELSE [r EXCEPT !.scene = p.number, !.dialog = FALSE, !.characters = "",
                   !.has_scene = TRUE]

CCaseDialogHeader(r, p) ==
    IF r.scene = 0 THEN fail(r, "Dialog without [Scene.X]")
    ELSE IF p.number <= 0 THEN fail_at(r, "Dialog number must be > 0", 8)
    ELSE [r EXCEPT !.dialog = TRUE]

\* the cases LINE_LEVEL, LINE_LOCATION and LINE_CHARACTERS
CCaseMetadata(r, p, kind, flag) ==
    IF r.scene = 0 THEN fail(r, kind \o " outside scene")
    ELSE IF r.dialog THEN fail(r, kind \o " after dialog")
    ELSE IF r[flag] THEN fail(r, "Duplicate " \o kind)
    ELSE IF kind = "Characters"
    THEN [r EXCEPT ![flag] = TRUE, !.characters = p.value]
    ELSE [r EXCEPT ![flag] = TRUE]

\* case LINE_DIALOG once char_known has returned, or was not called
CCaseDialogEnd(r, known) ==
    LET checked == IF known THEN r ELSE fail(r, "Unknown character")
    IN  EndIteration(
            IF r.p.hasMeta /\ ~Contains(r.p.meta, "}")
            THEN fail_at(checked, "Missing '}' in metadata",
                         IndexOf(r.original_lines[r.i + 1], "{"))
            ELSE checked)

\* the switch on the parsed line p, up to the end of the iteration or, for a
\* dialog line checked against a list, up to the first call of strtok in
\* char_known, whose result is first
CompileSwitch(r, p, save, first) ==
    LET cut == [r EXCEPT !.lines[r.i + 1] = p.buffer, !.p = p]
        kept(after) == [run |-> EndIteration(after), save |-> save]
    IN  CASE p.type = "LINE_EMPTY" -> kept(CCaseEmpty(cut))
          [] p.type = "LINE_COMMENT" -> kept(cut)
          [] p.type = "LINE_SCENE" -> kept(CCaseScene(cut, p))
          [] p.type = "LINE_DIALOG_HEADER" -> kept(CCaseDialogHeader(cut, p))
          [] p.type = "LINE_LEVEL" -> kept(CCaseMetadata(cut, p, "Level", "has_level"))
          [] p.type = "LINE_LOCATION" ->
                 kept(CCaseMetadata(cut, p, "Location", "has_location"))
          [] p.type = "LINE_CHARACTERS" ->
                 kept(CCaseMetadata(cut, p, "Characters", "has_chars"))
          [] p.type = "LINE_DIALOG" ->
                 IF ~r.dialog THEN kept(fail(cut, "Stray dialog line"))
                 ELSE IF r.characters = ""
                 THEN [run |-> CCaseDialogEnd(cut, TRUE), save |-> save]
                 ELSE [run  |-> [cut EXCEPT !.pc = "char_known", !.t = first],
                       save |-> first.save]
          [] p.type = "LINE_UNKNOWN" ->
                 kept(fail(cut, IF r.dialog THEN "Invalid line in dialog"
                                ELSE "Unknown syntax"))
          [] p.type \in {"LINE_ERROR_EMPTY_TEXT", "LINE_ERROR_NO_SPACE_AFTER_COLON",
                         "LINE_ERROR_META_NOT_AT_END"} -> kept(cut)
          [] OTHER -> kept(fail_message(cut, CErrorMessage(p.type)))

\* one iteration of the loop
CompileLineStep(r, save) ==
    CompileSwitch(r, ParseLine(r.lines[r.i + 1]), save, Strtok(r.characters))

\* char_known on the token at hand: the list is exhausted, the token is the
\* name, or strtok(NULL, ",") is called, which reads and moves the saved
\* pointer and whose result is next
CharKnownSwitch(r, save, known, next) ==
    IF ~r.t.found \/ known
    THEN [run |-> CCaseDialogEnd(r, known), save |-> save]
    ELSE [run |-> [r EXCEPT !.t = next], save |-> next.save]

CharKnownStep(r, save) ==
    CharKnownSwitch(r, save, r.t.found /\ Trim(r.t.token) = r.p.name, Strtok(save))

\* the conversion (char) error
ToChar(n, signed) ==
    LET low == n % (2 ^ CharBits)
    IN  IF signed /\ low >= 2 ^ (CharBits - 1) THEN low - 2 ^ CharBits ELSE low

\* the final checks and the return (lines 218-238)
MissingParts(r) ==
    (IF r.has_scene THEN << >> ELSE <<"Missing [Scene.X]">>)
        \o (IF r.has_level THEN << >> ELSE <<"Missing Level">>)
        \o (IF r.has_location THEN << >> ELSE <<"Missing Location">>)
        \o (IF r.has_chars THEN << >> ELSE <<"Missing Characters">>)

RECURSIVE FinalChecks(_, _)
FinalChecks(r, missing) ==
    IF missing = << >> THEN r
    ELSE FinalChecks(fail_final(r, Head(missing)), Tail(missing))

Returned(r, signed) ==
    [r EXCEPT !.pc = "returned", !.result = ToChar(r.error, signed)]

CompileReturnStep(r, signed) == Returned(FinalChecks(r, MissingParts(r)), signed)

\* an invocation run from a state to its return with no other invocation
RECURSIVE RunAlone(_, _)
RunAlone(r, save) ==
    IF r.pc = "returned" THEN r
    ELSE IF r.pc = "char_known"
    THEN The({RunAlone(out.run, out.save) : out \in {CharKnownStep(r, save)}})
    ELSE IF r.i < r.total_lines
    THEN The({RunAlone(out.run, out.save) : out \in {CompileLineStep(r, save)}})
    ELSE CompileReturnStep(r, FALSE)

\* the diagnostics of a compile of a file, run alone
Diagnostics(file) == RunAlone(ReadRun(file), "").messages

(***************************************************************************)
(* State: the file handed to Compile, Compile's position, the result it    *)
(* builds (CompileResult) and the compiler's private fields (the           *)
(* SceneContext).                                                          *)
(***************************************************************************)
VARIABLES
    lines,            \* File.ReadAllLines(filePath)
    pc,               \* "start", "loop", "done", or "thrown"
    i,                \* the loop index of Compile: lines[0..i-1] are processed
    totalLines,       \* result.TotalLines
    errors,           \* result.Errors
    parsedLines,      \* result.ParsedLines
    hasScene,         \* _hasScene
    hasLevel,         \* _hasLevel
    hasLocation,      \* _hasLocation
    hasCharacters,    \* _hasCharacters
    inDialog,         \* _inDialog
    currentScene,     \* _currentScene
    knownCharacters,  \* _knownCharacters
    disk,             \* the C tool: the files under tests/, by name
    runs,             \* the C tool: the locals of each invocation of compile
    strtokSave,       \* the C tool: the pointer strtok keeps between calls
    fixer,            \* the C tool: the locals of auto_fix
    charSigned,       \* the C tool: whether char is a signed type in the build
    suggest           \* the C tool: the locals of find_similar_character

ctxVars == <<hasScene, hasLevel, hasLocation, hasCharacters, inDialog,
             currentScene, knownCharacters>>

\* the fields and locals of DialScriptCompiler.Compile
compilerVars == <<lines, pc, i, totalLines, errors, parsedLines, hasScene, hasLevel,
                  hasLocation, hasCharacters, inDialog, currentScene, knownCharacters>>

\* the state of the C tool
toolVars == <<disk, runs, strtokSave, fixer, charSigned, suggest>>

vars == <<lines, pc, i, totalLines, errors, parsedLines, hasScene, hasLevel,
          hasLocation, hasCharacters, inDialog, currentScene, knownCharacters,
          disk, runs, strtokSave, fixer, charSigned, suggest>>

\* the private fields as one value
Context ==
    [hasScene        |-> hasScene,
     hasLevel        |-> hasLevel,
     hasLocation     |-> hasLocation,
     hasCharacters   |-> hasCharacters,
     inDialog        |-> inDialog,
     currentScene    |-> currentScene,
     knownCharacters |-> knownCharacters]

\* the fields after ResetState()
ResetState ==
    [hasScene        |-> FALSE,
     hasLevel        |-> FALSE,
     hasLocation     |-> FALSE,
     hasCharacters   |-> FALSE,
     inDialog        |-> FALSE,
     currentScene    |-> 0,
     knownCharacters |-> {}]

\* C13: an error list that grows at its head
AddError_AtHead(errs, lineNumber, message, hint, errorPosition) ==
    <<[LineNumber    |-> lineNumber,
       Message       |-> message,
       Hint          |-> hint,
       ErrorPosition |-> errorPosition]>> \o errs

\* C21: an error list whose entries lose the caret column
AddError_NoCaret(errs, lineNumber, message, hint, errorPosition) ==
    Append(errs, [LineNumber    |-> lineNumber,
                  Message       |-> message,
                  Hint          |-> hint,
                  ErrorPosition |-> -1])

(***************************************************************************)
(* DialScriptCompiler.AddError.  CompileError.LineContent, a copy of the   *)
(* source line kept for the renderer, is not modelled.                     *)
(***************************************************************************)
AddError(errs, lineNumber, message, hint, errorPosition) ==
    Append(errs, [LineNumber    |-> lineNumber,
                  Message       |-> message,
                  Hint          |-> hint,
                  ErrorPosition |-> errorPosition])

\* what one ValidateLine call leaves behind: the fields and the error list
Outcome(ctx, errs) == [ctx |-> ctx, errors |-> errs]

(***************************************************************************)
(* Faulty variants of the cases below.  Each is a plausible slip in the    *)
(* code that the property named beside it must tell from the real case.    *)
(***************************************************************************)
\* C32: an accepted scene header that sets the number and forgets the flag
CaseScene_ForgetsFlag(ctx, errs, parsed, lineNumber) ==
    IF ctx.hasScene
    THEN Outcome(ctx, AddError(errs, lineNumber, "Only one [Scene.X] allowed",
                               "remove extra scene declarations", -1))
    ELSE IF parsed.Number <= 0
    THEN Outcome(ctx, AddError(errs, lineNumber, "Scene number must be > 0",
                               "use [Scene.1], [Scene.2], etc.", 7))
    ELSE Outcome([ctx EXCEPT !.currentScene = parsed.Number,
                             !.inDialog = FALSE,
                             !.knownCharacters = {}],
                 errs)

\* C33: a dialog header that closes the dialog block an earlier one opened
CaseDialogHeader_Toggles(ctx, errs, parsed, lineNumber) ==
    IF ctx.currentScene = 0
    THEN Outcome(ctx, AddError(errs, lineNumber, "Dialog without [Scene.X]",
                               "add [Scene.1] before this dialog", -1))
    ELSE IF parsed.Number <= 0
    THEN Outcome(ctx, AddError(errs, lineNumber, "Dialog number must be > 0",
                               "use [Dialog.1], [Dialog.2], etc.", 8))
    ELSE Outcome([ctx EXCEPT !.inDialog = ~ctx.inDialog], errs)

\* C1: a scene header that is accepted although a scene was accepted before
CaseScene_NoDuplicateCheck(ctx, errs, parsed, lineNumber) ==
    IF parsed.Number <= 0
    THEN Outcome(ctx, AddError(errs, lineNumber, "Scene number must be > 0",
                               "use [Scene.1], [Scene.2], etc.", 7))
    ELSE Outcome([ctx EXCEPT !.currentScene = parsed.Number,
                             !.inDialog = FALSE,
                             !.knownCharacters = {},
                             !.hasScene = TRUE],
                 errs)

\* C2: a Level line that is accepted although no scene is open
CaseLevel_NoSceneCheck(ctx, errs, lineNumber) ==
    IF ctx.inDialog
    THEN Outcome(ctx, AddError(errs, lineNumber, "Level after dialog",
                               "move Level: x before [Dialog.X]", -1))
    ELSE IF ctx.hasLevel
    THEN Outcome(ctx, AddError(errs, lineNumber, "Duplicate Level",
                               "remove extra Level definition", -1))
    ELSE Outcome([ctx EXCEPT !.hasLevel = TRUE], errs)

\* C3: a dialog header that opens a dialog block although no scene is open
CaseDialogHeader_NoSceneCheck(ctx, errs, parsed, lineNumber) ==
    IF parsed.Number <= 0
    THEN Outcome(ctx, AddError(errs, lineNumber, "Dialog number must be > 0",
                               "use [Dialog.1], [Dialog.2], etc.", 8))
    ELSE Outcome([ctx EXCEPT !.inDialog = TRUE], errs)

\* C4: a Location line whose duplicate check comes before its after-dialog check
CaseLocation_DuplicateFirst(ctx, errs, lineNumber) ==
    IF ctx.currentScene = 0
    THEN Outcome(ctx, AddError(errs, lineNumber, "Location outside scene",
                               "move Location: x inside [Scene.X] block", -1))
    ELSE IF ctx.hasLocation
    THEN Outcome(ctx, AddError(errs, lineNumber, "Duplicate Location",
                               "remove extra Location definition", -1))
    ELSE IF ctx.inDialog
    THEN Outcome(ctx, AddError(errs, lineNumber, "Location after dialog",
                               "move Location: x before [Dialog.X]", -1))
    ELSE Outcome([ctx EXCEPT !.hasLocation = TRUE], errs)

\* C5: a dialog line whose name is checked although it is a stray line
CaseDialog_ChecksStrayLine(ctx, errs, parsed, lineNumber) ==
    LET afterStray ==
            IF ~ctx.inDialog
            THEN AddError(errs, lineNumber, "Stray dialog line",
                          "add [Dialog.1] before this line", -1)
            ELSE errs
        afterName ==
            IF /\ Cardinality(ctx.knownCharacters) > 0
               /\ Len(parsed.CharacterName) > 0
               /\ parsed.CharacterName \notin ctx.knownCharacters
            THEN AddError(afterStray, lineNumber, "Unknown character",
                          "add this character to Characters", -1)
            ELSE afterStray
    IN  Outcome(ctx, afterName)

\* C6: a known-character check that ignores the case of the letters
UnknownCharacter_IgnoreCase(ctx, parsed) ==
    /\ Cardinality(ctx.knownCharacters) > 0
    /\ Len(parsed.CharacterName) > 0
    /\ \A known \in ctx.knownCharacters :
           ToLower(known) # ToLower(parsed.CharacterName)

\* C7: a blank-line check that does not look whether the next line is an error
CaseEmpty_NoErrorExclusion(ctx, errs, fileLines, index) ==
    LET lineNumber == index + 1
    IN  IF /\ ctx.inDialog
           /\ index + 1 < Len(fileLines)
           /\ LET nextParsed == Classify(fileLines[index + 2], lineNumber + 1)
              IN  /\ nextParsed.Type # "DialogHeader"
                  /\ nextParsed.Type # "Comment"
        THEN Outcome(ctx, AddError(errs, lineNumber,
                                   "Empty line inside dialog block",
                                   "remove empty lines between dialog lines", -1))
        ELSE Outcome(ctx, errs)

\* C8: a switch whose fall-through reports the line, so that a comment is reported
CaseError_DefaultReports(ctx, errs, parsed, lineNumber) ==
    Outcome(ctx, AddError(errs, lineNumber, "Unknown syntax",
                          "check spelling or use: [Scene.N], [Dialog.N], Name: Text",
                          -1))

\* C10: final requirements that stop at the first one missing
ValidateFinalRequirements_FirstOnly(ctx, total, errs) ==
    IF ~ctx.hasScene
    THEN AddError(errs, total, "Missing [Scene.X]",
                  "add [Scene.1] at the beginning of file", -1)
    ELSE IF ~ctx.hasLevel
    THEN AddError(errs, total, "Missing Level",
                  "add 'Level: N' after [Scene.X]", -1)
    ELSE IF ~ctx.hasLocation
    THEN AddError(errs, total, "Missing Location",
                  "add 'Location: name' after [Scene.X]", -1)
    ELSE IF ~ctx.hasCharacters
    THEN AddError(errs, total, "Missing Characters",
                  "add 'Characters: Name1, Name2' after [Scene.X]", -1)
    ELSE errs

(***************************************************************************)
(* DialScriptCompiler.ValidateLine, one operator per case of its switch.   *)
(***************************************************************************)
CaseEmpty(ctx, errs, fileLines, index) ==
    LET lineNumber == index + 1
    IN  IF /\ ctx.inDialog
           /\ index + 1 < Len(fileLines)
           /\ LET nextParsed == Classify(fileLines[index + 2], lineNumber + 1)
              IN  /\ nextParsed.Type # "DialogHeader"
                  /\ nextParsed.Type # "Comment"
                  /\ ~IsError(nextParsed.Type)
        THEN Outcome(ctx, AddError(errs, lineNumber,
                                   "Empty line inside dialog block",
                                   "remove empty lines between dialog lines", -1))
        ELSE Outcome(ctx, errs)

CaseScene(ctx, errs, parsed, lineNumber) ==
    IF ctx.hasScene
    THEN Outcome(ctx, AddError(errs, lineNumber, "Only one [Scene.X] allowed",
                               "remove extra scene declarations", -1))
    ELSE IF parsed.Number <= 0
    THEN Outcome(ctx, AddError(errs, lineNumber, "Scene number must be > 0",
                               "use [Scene.1], [Scene.2], etc.", 7))
    ELSE Outcome([ctx EXCEPT !.currentScene = parsed.Number,
                             !.inDialog = FALSE,
                             !.knownCharacters = {},
                             !.hasScene = TRUE],
                 errs)

CaseDialogHeader(ctx, errs, parsed, lineNumber) ==
    IF ctx.currentScene = 0
    THEN Outcome(ctx, AddError(errs, lineNumber, "Dialog without [Scene.X]",
                               "add [Scene.1] before this dialog", -1))
    ELSE IF parsed.Number <= 0
    THEN Outcome(ctx, AddError(errs, lineNumber, "Dialog number must be > 0",
                               "use [Dialog.1], [Dialog.2], etc.", 8))
    ELSE Outcome([ctx EXCEPT !.inDialog = TRUE], errs)

CaseLevel(ctx, errs, lineNumber) ==
    IF ctx.currentScene = 0
    THEN Outcome(ctx, AddError(errs, lineNumber, "Level outside scene",
                               "move Level: x inside [Scene.X] block", -1))
    ELSE IF ctx.inDialog
    THEN Outcome(ctx, AddError(errs, lineNumber, "Level after dialog",
                               "move Level: x before [Dialog.X]", -1))
    ELSE IF ctx.hasLevel
    THEN Outcome(ctx, AddError(errs, lineNumber, "Duplicate Level",
                               "remove extra Level definition", -1))
    ELSE Outcome([ctx EXCEPT !.hasLevel = TRUE], errs)

CaseLocation(ctx, errs, lineNumber) ==
    IF ctx.currentScene = 0
    THEN Outcome(ctx, AddError(errs, lineNumber, "Location outside scene",
                               "move Location: x inside [Scene.X] block", -1))
    ELSE IF ctx.inDialog
    THEN Outcome(ctx, AddError(errs, lineNumber, "Location after dialog",
                               "move Location: x before [Dialog.X]", -1))
    ELSE IF ctx.hasLocation
    THEN Outcome(ctx, AddError(errs, lineNumber, "Duplicate Location",
                               "remove extra Location definition", -1))
    ELSE Outcome([ctx EXCEPT !.hasLocation = TRUE], errs)

\* C12: a known-character list whose names are not trimmed
SplitCharacters_NoTrim(value) ==
    {Split(value)[k] : k \in 1..Len(Split(value))} \ {""}

\* parsed.Value.Split(',').Select(c => c.Trim()).Where(non-empty).ToHashSet()
SplitCharacters(value) ==
    {Trim(Split(value)[k]) : k \in 1..Len(Split(value))} \ {""}

\* C23: a duplicate Characters line that is reported and replaces the set
CaseCharacters_DuplicateReplaces(ctx, errs, parsed, lineNumber) ==
    IF ctx.currentScene = 0
    THEN Outcome(ctx, AddError(errs, lineNumber, "Characters outside scene",
                               "move Characters: inside [Scene.X] block", -1))
    ELSE IF ctx.inDialog
    THEN Outcome(ctx, AddError(errs, lineNumber, "Characters after dialog",
                               "move Characters: before [Dialog.X]", -1))
    ELSE Outcome([ctx EXCEPT !.knownCharacters = SplitCharacters(parsed.Value),
                             !.hasCharacters = TRUE],
                 IF ctx.hasCharacters
                 THEN AddError(errs, lineNumber, "Duplicate Characters",
                               "remove extra Characters definition", -1)
                 ELSE errs)

CaseCharacters(ctx, errs, parsed, lineNumber) ==
    IF ctx.currentScene = 0
    THEN Outcome(ctx, AddError(errs, lineNumber, "Characters outside scene",
                               "move Characters: inside [Scene.X] block", -1))
    ELSE IF ctx.inDialog
    THEN Outcome(ctx, AddError(errs, lineNumber, "Characters after dialog",
                               "move Characters: before [Dialog.X]", -1))
    ELSE IF ctx.hasCharacters
    THEN Outcome(ctx, AddError(errs, lineNumber, "Duplicate Characters",
                               "remove extra Characters definition", -1))
    ELSE Outcome([ctx EXCEPT !.knownCharacters =
                                 IF Len(parsed.Value) > 0
                                 THEN SplitCharacters(parsed.Value)
                                 ELSE ctx.knownCharacters,
                             !.hasCharacters = TRUE],
                 errs)

\* the known-character check of a dialog line
UnknownCharacter(ctx, parsed) ==
    /\ Cardinality(ctx.knownCharacters) > 0
    /\ Len(parsed.CharacterName) > 0
    /\ parsed.CharacterName \notin ctx.knownCharacters

\* the metadata check of a dialog line
MissingClosingBrace(parsed) ==
    Len(parsed.Metadata) > 0 /\ ~Contains(parsed.Metadata, "}")

CaseDialog(ctx, errs, parsed, lineNumber) ==
    IF ~ctx.inDialog
    THEN Outcome(ctx, AddError(errs, lineNumber, "Stray dialog line",
                               "add [Dialog.1] before this line", -1))
    ELSE LET afterName ==
                 IF UnknownCharacter(ctx, parsed)
                 THEN AddError(errs, lineNumber, "Unknown character",
                               "add this character to Characters", -1)
                 ELSE errs
             afterMeta ==
                 IF MissingClosingBrace(parsed)
                 THEN AddError(afterName, lineNumber, "Missing '}' in metadata",
                               "close metadata with '}'",
                               IndexOf(parsed.OriginalContent, "{"))
                 ELSE afterName
         IN  Outcome(ctx, afterMeta)

\* C22: an unknown line reported the same way inside and outside a dialog
CaseUnknown_IgnoresDialog(ctx, errs, lineNumber) ==
    Outcome(ctx, AddError(errs, lineNumber, "Unknown syntax",
                          "check spelling or use: [Scene.N], [Dialog.N], Name: Text",
                          -1))

CaseUnknown(ctx, errs, lineNumber) ==
    IF ctx.inDialog
    THEN Outcome(ctx, AddError(errs, lineNumber, "Invalid line in dialog",
                               "use format: Name: Text", -1))
    ELSE Outcome(ctx, AddError(errs, lineNumber, "Unknown syntax",
                               "check spelling or use: [Scene.N], [Dialog.N], Name: Text",
                               -1))

\* the cases of the error kinds: each adds one error
CaseError(ctx, errs, parsed, lineNumber) ==
    LET t == parsed.Type
        line == parsed.OriginalContent
    IN  CASE t = "ErrorEmptyName" ->
               Outcome(ctx, AddError(errs, lineNumber, "Empty name before ':'",
                                     "add character name, e.g. Alan: Hello", -1))
          [] t = "ErrorMissingColon" ->
               Outcome(ctx, AddError(errs, lineNumber, "Missing ':' in dialog",
                                     "use format: Name: Text", -1))
          [] t = "ErrorInvalidDialogFormat" ->
               Outcome(ctx, AddError(errs, lineNumber, "Wrong dialog format",
                                     "use format: Name: Text", -1))
          [] t = "ErrorTypoScene" ->
               Outcome(ctx, AddError(errs, lineNumber, "Did you mean [Scene.N]?",
                                     "check spelling", 1))
          [] t = "ErrorTypoDialog" ->
               Outcome(ctx, AddError(errs, lineNumber, "Did you mean [Dialog.N]?",
                                     "check spelling", 1))
          [] t = "ErrorTypoLevel" ->
               Outcome(ctx, AddError(errs, lineNumber, "Did you mean 'Level:'?",
                                     "check spelling", -1))
          [] t = "ErrorTypoLocation" ->
               Outcome(ctx, AddError(errs, lineNumber, "Did you mean 'Location:'?",
                                     "check spelling", -1))
          [] t = "ErrorTypoCharacters" ->
               Outcome(ctx, AddError(errs, lineNumber, "Did you mean 'Characters:'?",
                                     "check spelling", -1))
          [] t = "ErrorUnclosedBracket" ->
               Outcome(ctx, AddError(errs, lineNumber, "Missing ']'",
                                     "close header with ']'", Len(line)))
          [] t = "ErrorExtraSpaceInHeader" ->
               Outcome(ctx, AddError(errs, lineNumber, "Extra space in header",
                                     "use [Scene.1] or [Dialog.1] without spaces", -1))
          [] t = "ErrorExtraSpaceInMetadata" ->
               Outcome(ctx, AddError(errs, lineNumber, "Extra space before ':'",
                                     "use 'Level:', 'Location:', 'Characters:' without spaces",
                                     -1))
          [] t = "ErrorLeadingSpace" ->
               Outcome(ctx, AddError(errs, lineNumber, "Leading space in dialog line",
                                     "character name must start at the beginning of the line",
                                     -1))
          [] t = "ErrorNoSpaceAfterColon" ->
               Outcome(ctx, AddError(errs, lineNumber, "Missing space after ':'",
                                     "add a space after the colon, e.g. 'Name: Text'", -1))
          [] t = "ErrorEmptyText" ->
               Outcome(ctx, AddError(errs, lineNumber, "Empty dialog text",
                                     "add text after the colon", -1))
          \* the switch has no case for any other type (Comment, ErrorMetaNotAtEnd,
          \* ErrorUnknownCharacter): nothing happens
          [] OTHER -> Outcome(ctx, errs)

ValidateLine(ctx, errs, parsed, fileLines, index) ==
    LET lineNumber == index + 1
        t == parsed.Type
    IN  CASE t = "Empty"        -> CaseEmpty(ctx, errs, fileLines, index)
          [] t = "Scene"        -> CaseScene(ctx, errs, parsed, lineNumber)
          [] t = "DialogHeader" -> CaseDialogHeader(ctx, errs, parsed, lineNumber)
          [] t = "Level"        -> CaseLevel(ctx, errs, lineNumber)
          [] t = "Location"     -> CaseLocation(ctx, errs, lineNumber)
          [] t = "Characters"   -> CaseCharacters(ctx, errs, parsed, lineNumber)
          [] t = "Dialog"       -> CaseDialog(ctx, errs, parsed, lineNumber)
          [] t = "Unknown"      -> CaseUnknown(ctx, errs, lineNumber)
          [] OTHER              -> CaseError(ctx, errs, parsed, lineNumber)

(***************************************************************************)
(* DialScriptCompiler.ValidateFinalRequirements.                           *)
(***************************************************************************)
ValidateFinalRequirements(ctx, total, errs) ==
    LET e1 == IF ~ctx.hasScene
              THEN AddError(errs, total, "Missing [Scene.X]",
                            "add [Scene.1] at the beginning of file", -1)
              ELSE errs
        e2 == IF ~ctx.hasLevel
              THEN AddError(e1, total, "Missing Level",
                            "add 'Level: N' after [Scene.X]", -1)
              ELSE e1
        e3 == IF ~ctx.hasLocation
              THEN AddError(e2, total, "Missing Location",
                            "add 'Location: name' after [Scene.X]", -1)
              ELSE e2
        e4 == IF ~ctx.hasCharacters
              THEN AddError(e3, total, "Missing Characters",
                            "add 'Characters: Name1, Name2' after [Scene.X]", -1)
              ELSE e3
    IN  e4

(***************************************************************************)
(* DialScriptCompiler.Compile, for a file that exists.                     *)
(***************************************************************************)
\* the invocations of compile of one process, and the file each is given
Threads == {1, 2}

FileNames == {"a.ds", "b.ds"}

FileOf(t) == IF t = 1 THEN "a.ds" ELSE "b.ds"

\* the locals of auto_fix before it is entered
IdleFixer ==
    [pc |-> "idle", lines |-> << >>, fixed_lines |-> << >>, total_lines |-> 0,
     i |-> 0, fixes_count |-> 0, result |-> 0]

\* the locals of find_similar_character before it is entered
IdleSuggestion ==
    [pc |-> "idle", name |-> "", characters |-> "", t |-> strtok(""),
     at |-> "", correct_name |-> ""]

\* the C tool before any invocation, on one of the given disks
InitTool(disks, signs) ==
    /\ disk \in disks
    /\ runs = [t \in Threads |-> IdleRun]
    /\ strtokSave = [text |-> "", owner |-> 1]
    /\ fixer = IdleFixer
    /\ charSigned \in signs
    /\ suggest = IdleSuggestion

NoFiles == [name \in FileNames |-> << >>]

InitCompiler(files) ==
    /\ lines \in files
    /\ pc = "start"
    /\ i = 0
    /\ totalLines = 0
    /\ errors = <<>>
    /\ parsedLines = <<>>
    /\ hasScene = FALSE
    /\ hasLevel = FALSE
    /\ hasLocation = FALSE
    /\ hasCharacters = FALSE
    /\ inDialog = FALSE
    /\ currentScene = 0
    /\ knownCharacters = {}

InitOn(files) == InitCompiler(files) /\ InitTool({NoFiles}, {FALSE})

Init == InitOn(Files)

InitErrors == InitOn(ErrorFiles)

InitOverflow == InitOn(OverflowFiles)

InitScripts == InitOn(ScriptFiles)

InitClassify == InitOn(ClassifyFiles)

SetContext(ctx) ==
    /\ hasScene' = ctx.hasScene
    /\ hasLevel' = ctx.hasLevel
    /\ hasLocation' = ctx.hasLocation
    /\ hasCharacters' = ctx.hasCharacters
    /\ inDialog' = ctx.inDialog
    /\ currentScene' = ctx.currentScene
    /\ knownCharacters' = ctx.knownCharacters

\* the lines are read, TotalLines is set and the fields are reset
CompileStart ==
    /\ pc = "start"
    /\ pc' = "loop"
    /\ totalLines' = Len(lines)
    /\ SetContext(ResetState)
    /\ UNCHANGED <<lines, i, errors, parsedLines>>
    /\ UNCHANGED toolVars

\* the line about to be classified
CurrentLine == lines[i + 1]

\* the classifier throws on the current line
ParseThrows == Classify(CurrentLine, i + 1).Type = "OverflowException"

\* the blank-line rule classifies the next line, and the classifier throws on it
LookaheadThrows ==
    /\ Classify(CurrentLine, i + 1).Type = "Empty"
    /\ inDialog
    /\ i + 1 < Len(lines)
    /\ Classify(lines[i + 2], i + 2).Type = "OverflowException"

\* one iteration of the loop: classify line i, record it, validate it
CompileLine ==
    /\ pc = "loop"
    /\ i < Len(lines)
    /\ LET parsed == Classify(CurrentLine, i + 1)
           out    == ValidateLine(Context, errors, parsed, lines, i)
       IN  IF ParseThrows
           THEN /\ pc' = "thrown"
                /\ UNCHANGED <<i, errors, parsedLines, ctxVars>>
           ELSE IF LookaheadThrows
           THEN /\ pc' = "thrown"
                /\ parsedLines' = Append(parsedLines, parsed)
                /\ UNCHANGED <<i, errors, ctxVars>>
           ELSE /\ parsedLines' = Append(parsedLines, parsed)
                /\ errors' = out.errors
                /\ SetContext(out.ctx)
                /\ i' = i + 1
                /\ pc' = "loop"
    /\ UNCHANGED <<lines, totalLines>>
    /\ UNCHANGED toolVars

\* the loop is over: the final requirements are checked and Compile returns
CompileFinish ==
    /\ pc = "loop"
    /\ i = Len(lines)
    /\ errors' = ValidateFinalRequirements(Context, Len(lines), errors)
    /\ pc' = "done"
    /\ UNCHANGED <<lines, i, totalLines, parsedLines, ctxVars>>
    /\ UNCHANGED toolVars

Next == CompileStart \/ CompileLine \/ CompileFinish

Spec == Init /\ [][Next]_vars

SpecErrors == InitErrors /\ [][Next]_vars

SpecOverflow == InitOverflow /\ [][Next]_vars

SpecScripts == InitScripts /\ [][Next]_vars

SpecClassify == InitClassify /\ [][Next]_vars

\* Compile is one sequential loop: a step that can be taken is taken
FairSpecOverflow == SpecOverflow /\ WF_vars(Next)

\* CompileResult.Success
CompileSuccess == Len(errors) = 0

(***************************************************************************)
(* The C tool: compile (part_006) and auto_fix (fixer.c), run by main.     *)
(* Invocation 1 is the one main and auto_fix call.                         *)
(***************************************************************************)
\* compile is entered: the file is read into the locals
compile_read(t) ==
    /\ runs[t].pc = "idle"
    /\ runs' = [runs EXCEPT ![t] = ReadRun(disk[FileOf(t)])]
    /\ UNCHANGED <<disk, strtokSave, fixer, charSigned>>
    /\ UNCHANGED <<compilerVars, suggest>>

\* one iteration of the loop of compile
compile_line(t) ==
    /\ runs[t].pc = "loop"
    /\ runs[t].i < runs[t].total_lines
    /\ \E out \in {CompileLineStep(runs[t], strtokSave.text)} :
           /\ runs' = [runs EXCEPT ![t] = out.run]
           /\ strtokSave' = IF out.run.pc = "char_known"
                            THEN [text |-> out.save, owner |-> t]
                            ELSE strtokSave
    /\ UNCHANGED <<disk, fixer, charSigned>>
    /\ UNCHANGED <<compilerVars, suggest>>

\* what strtok(NULL, ",") may read: the text the saved pointer points to, which
\* is in the buffer of the char_known call that set it; once that call has
\* returned, the buffer is dead storage, which may still hold the text or not
SavedText ==
    IF runs[strtokSave.owner].pc = "char_known"
    THEN {strtokSave.text}
    ELSE {strtokSave.text, ""}

\* one turn of the loop of char_known
char_known_token(t) ==
    /\ runs[t].pc = "char_known"
    /\ \E text \in SavedText :
           \E out \in {CharKnownStep(runs[t], text)} :
               /\ runs' = [runs EXCEPT ![t] = out.run]
               /\ strtokSave' = IF out.run.pc = "char_known"
                                THEN [strtokSave EXCEPT !.text = out.save]
                                ELSE strtokSave
    /\ UNCHANGED <<disk, fixer, charSigned>>
    /\ UNCHANGED <<compilerVars, suggest>>

\* the loop is over: the final checks, and the count is returned as a char
compile_return(t) ==
    /\ runs[t].pc = "loop"
    /\ runs[t].i = runs[t].total_lines
    /\ runs' = [runs EXCEPT ![t] = CompileReturnStep(runs[t], charSigned)]
    /\ UNCHANGED <<disk, strtokSave, fixer, charSigned>>
    /\ UNCHANGED <<compilerVars, suggest>>

\* main without -f: compile(filename, mode)
main_compile ==
    /\ fixer.pc = "idle"
    /\ compile_read(1)

\* main with -f: auto_fix is entered and reads the file
auto_fix_read ==
    /\ fixer.pc = "idle"
    /\ runs[1].pc \in {"idle", "returned"}
    /\ fixer' = [IdleFixer EXCEPT !.pc = "fix", !.lines = disk[FileOf(1)],
                                  !.total_lines = Len(disk[FileOf(1)])]
    /\ UNCHANGED <<disk, runs, strtokSave, charSigned>>
    /\ UNCHANGED <<compilerVars, suggest>>

\* one iteration of the loop "Fix each line"
auto_fix_line ==
    /\ fixer.pc = "fix"
    /\ fixer.i < fixer.total_lines
    /\ \E garbage \in StackGarbage :
           \E out \in {FixLine(fixer.lines[fixer.i + 1],
                               CharactersFor(fixer.lines, fixer.i + 1), garbage)} :
               /\ fixer' = [fixer EXCEPT
                               !.fixed_lines = Append(@, out.fixed),
                               !.fixes_count = IF out.fired THEN @ + 1 ELSE @,
                               !.i = @ + 1]
               /\ strtokSave' = IF out.tokenised
                                THEN [text |-> "", owner |-> 1]
                                ELSE strtokSave
    /\ UNCHANGED <<disk, runs, charSigned>>
    /\ UNCHANGED <<compilerVars, suggest>>

\* "Write fixed file"
auto_fix_write ==
    /\ fixer.pc = "fix"
    /\ fixer.i = fixer.total_lines
    /\ fixer.fixes_count > 0
    /\ disk' = [disk EXCEPT ![FileOf(1)] = fixer.fixed_lines]
    /\ fixer' = [fixer EXCEPT !.pc = "written"]
    /\ UNCHANGED <<runs, strtokSave, charSigned>>
    /\ UNCHANGED <<compilerVars, suggest>>

\* auto_fix calls compile(filename, 0): with no fix made, or after the write
auto_fix_compile ==
    /\ \/ fixer.pc = "written"
       \/ fixer.pc = "fix" /\ fixer.i = fixer.total_lines /\ fixer.fixes_count = 0
    /\ fixer' = [fixer EXCEPT !.pc = "compile"]
    /\ runs' = [runs EXCEPT ![1] = ReadRun(disk[FileOf(1)])]
    /\ UNCHANGED <<disk, strtokSave, charSigned>>
    /\ UNCHANGED <<compilerVars, suggest>>

\* compile has returned to auto_fix, which returns 1 when result > 0
auto_fix_return ==
    /\ fixer.pc = "compile"
    /\ runs[1].pc = "returned"
    /\ fixer' = [fixer EXCEPT !.pc = "returned",
                              !.result = IF runs[1].result > 0 THEN 1 ELSE 0]
    /\ UNCHANGED <<disk, runs, strtokSave, charSigned>>
    /\ UNCHANGED <<compilerVars, suggest>>

\* the names and the Characters values find_similar_character is called on
SuggestNames == {"A", "Ab", "Abc", "Alan", "Aln", "alan", "Bet", "Zed"}

SuggestLists == {"", "A", "Alan, Beth", "Al, ,Beth", "B,Alan", "Alann, Be"}

\* find_similar_character is entered: the list is copied and strtok is called
\* on the copy (lines 32-36)
find_similar_character_call ==
    /\ suggest.pc = "call"
    /\ suggest' = [suggest EXCEPT !.pc = "loop", !.t = strtok(suggest.characters)]
    /\ UNCHANGED <<disk, runs, strtokSave, fixer, charSigned>>
    /\ UNCHANGED compilerVars

\* one turn of the loop: the token is returned, or strtok is called again on
\* what the saved pointer points to, which only this call moves
find_similar_character_token ==
    /\ suggest.pc = "loop"
    /\ suggest.t.found
    /\ \E out \in {SimilarCharacterStep(suggest.name, suggest.t.token)} :
           suggest' = IF out.similar
                      THEN [suggest EXCEPT !.pc = "done", !.at = out.at,
                                           !.correct_name = out.token]
                      ELSE [suggest EXCEPT !.at = out.at,
                                           !.t = strtok(suggest.t.save)]
    /\ UNCHANGED <<disk, runs, strtokSave, fixer, charSigned>>
    /\ UNCHANGED compilerVars

\* strtok found no token: NULL is returned (line 75)
find_similar_character_return ==
    /\ suggest.pc = "loop"
    /\ ~suggest.t.found
    /\ suggest' = [suggest EXCEPT !.pc = "done", !.correct_name = ""]
    /\ UNCHANGED <<disk, runs, strtokSave, fixer, charSigned>>
    /\ UNCHANGED compilerVars

InitSuggest ==
    /\ InitCompiler({<< >>})
    /\ disk = NoFiles
    /\ runs = [t \in Threads |-> IdleRun]
    /\ strtokSave = [text |-> "", owner |-> 1]
    /\ fixer = IdleFixer
    /\ charSigned = FALSE
    /\ suggest \in {[IdleSuggestion EXCEPT !.pc = "call", !.name = name,
                                           !.characters = list] :
                        name \in SuggestNames, list \in SuggestLists}

\* one call of find_similar_character
NextSuggest ==
    \/ find_similar_character_call
    \/ find_similar_character_token
    \/ find_similar_character_return

SpecSuggest == InitSuggest /\ [][NextSuggest]_vars

InitFix ==
    /\ InitCompiler({<< >>})
    /\ InitTool({[NoFiles EXCEPT !["a.ds"] = file] : file \in FixFiles}, BOOLEAN)

\* one file, checked by main and then fixed by main -f, or fixed at once
NextFix ==
    \/ main_compile
    \/ compile_line(1)
    \/ char_known_token(1)
    \/ compile_return(1)
    \/ auto_fix_read
    \/ auto_fix_line
    \/ auto_fix_write
    \/ auto_fix_compile
    \/ auto_fix_return

SpecFix == InitFix /\ [][NextFix]_vars

InitConcurrent ==
    /\ InitCompiler({<< >>})
    /\ InitTool([FileNames -> ConcurrentFiles], BOOLEAN)

\* two invocations of compile, each on its own file, interleaved at the calls of
\* strtok, which is where they read and write storage that is not their own
NextConcurrent ==
    \E t \in Threads :
        \/ compile_read(t)
        \/ compile_line(t)
        \/ char_known_token(t)
        \/ compile_return(t)

SpecConcurrent == InitConcurrent /\ [][NextConcurrent]_vars

(***************************************************************************)
(* Vocabulary of the properties: the step about to be taken, the event it  *)
(* processes, what it emits, and the diagnostics by their taxonomy names.  *)
(***************************************************************************)
\* the validator is about to process line i + 1
Stepping == pc = "loop" /\ i < Len(lines)

\* the event the validator is about to process
Event == Classify(lines[i + 1], i + 1)

\* the logical states of the validator
Outside == currentScene = 0

InScene == currentScene # 0 /\ ~inDialog

InDialog == currentScene # 0 /\ inDialog

\* the step emits no diagnostic
EmitsNothing == errors' = errors

\* the step emits exactly one diagnostic, with this message, for the line processed
EmitsOne(message) ==
    /\ Len(errors') = Len(errors) + 1
    /\ SubSeq(errors', 1, Len(errors)) = errors
    /\ errors'[Len(errors')].Message = message
    /\ errors'[Len(errors')].LineNumber = i + 1

\* the messages the step emits, in order
EmittedMessages ==
    [k \in 1..(Len(errors') - Len(errors)) |-> errors'[Len(errors) + k].Message]

\* some diagnostic with this message is in the list
Reported(message) == \E k \in 1..Len(errors) : errors[k].Message = message

\* some diagnostic with this message is in the list, for this line
ReportedAt(message, lineNumber) ==
    \E k \in 1..Len(errors) :
        errors[k].Message = message /\ errors[k].LineNumber = lineNumber

DuplicateScene == "Only one [Scene.X] allowed"

DialogWithoutScene == "Dialog without [Scene.X]"

StrayDialogLine == "Stray dialog line"

UnknownCharacterMessage == "Unknown character"

MissingClosingBraceMessage == "Missing '}' in metadata"

BlankLineInDialogBlock == "Empty line inside dialog block"

OutsideSceneMessage(kind) == kind \o " outside scene"

AfterDialogMessage(kind) == kind \o " after dialog"

DuplicateMessage(kind) == "Duplicate " \o kind

\* the has-flag of a metadata kind
HasFlag(kind) ==
    CASE kind = "Level"      -> hasLevel
      [] kind = "Location"   -> hasLocation
      [] kind = "Characters" -> hasCharacters

\* the has-flag of a metadata kind after the step
HasFlagAfter(kind) ==
    CASE kind = "Level"      -> hasLevel'
      [] kind = "Location"   -> hasLocation'
      [] kind = "Characters" -> hasCharacters'

(***************************************************************************)
(* C1.  A scene header is accepted only while no scene has been accepted   *)
(* (hasScene false), so at most one is accepted per compile; every scene   *)
(* header processed after that, before any dialog or inside a dialog,      *)
(* emits exactly one DuplicateScene diagnostic and leaves currentScene,    *)
(* inDialog, the has-flags and the known-character set unchanged.          *)
(***************************************************************************)
\* the scene headers processed so far that were accepted
AcceptedScenes ==
    {k \in 1..Len(parsedLines) :
        /\ parsedLines[k].Type = "Scene"
        /\ ~ReportedAt(DuplicateScene, k)
        /\ ~ReportedAt("Scene number must be > 0", k)}

C1_DuplicateSceneRejected ==
    /\ [](Cardinality(AcceptedScenes) <= 1)
    /\ [][(Stepping /\ Event.Type = "Scene")
            => IF hasScene
               THEN EmitsOne(DuplicateScene) /\ UNCHANGED ctxVars
               ELSE EmitsNothing /\ hasScene']_vars

\* a second scene header has been rejected inside a dialog, and one before any dialog
C1_Witness ==
    /\ pc = "loop"
    /\ i = 4
    /\ parsedLines[2].Type = "Scene" /\ ReportedAt(DuplicateScene, 2)
    /\ parsedLines[3].Type = "DialogHeader"
    /\ parsedLines[4].Type = "Scene" /\ ReportedAt(DuplicateScene, 4)
    /\ inDialog
    /\ currentScene = parsedLines[1].Number
    /\ currentScene # parsedLines[4].Number

(***************************************************************************)
(* C2.  In the state right after a scene header was accepted: the          *)
(* known-character set is empty, hasLevel, hasLocation and hasCharacters   *)
(* are false, inDialog is false, hasScene is true and currentScene is the  *)
(* header's number.                                                        *)
(***************************************************************************)
\* the line just processed was a scene header and it was accepted
SceneJustAccepted ==
    /\ pc = "loop"
    /\ i >= 1
    /\ parsedLines[i].Type = "Scene"
    /\ \A k \in 1..Len(errors) : errors[k].LineNumber # i

C2_StateAfterSceneAccepted ==
    SceneJustAccepted =>
        /\ knownCharacters = {}
        /\ ~hasLevel /\ ~hasLocation /\ ~hasCharacters
        /\ ~inDialog
        /\ hasScene
        /\ currentScene = parsedLines[i].Number

\* a scene header was accepted after metadata and dialog lines had been rejected
C2_Witness ==
    /\ SceneJustAccepted
    /\ i = 4
    /\ Reported(OutsideSceneMessage("Characters"))
    /\ Reported(DialogWithoutScene)
    /\ currentScene = 2

(***************************************************************************)
(* C3.  A dialog header processed while no scene is open emits exactly one *)
(* DialogWithoutScene diagnostic and leaves inDialog false; processed      *)
(* while a scene is open it emits nothing and leaves inDialog true, on the *)
(* first dialog header and on every later one.                             *)
(***************************************************************************)
C3_DialogHeader ==
    [][(Stepping /\ Event.Type = "DialogHeader")
         => IF currentScene = 0
            THEN EmitsOne(DialogWithoutScene) /\ ~inDialog /\ ~inDialog'
            ELSE EmitsNothing /\ inDialog']_vars

\* a dialog header was rejected outside the scene, then two were accepted in it
C3_Witness ==
    /\ pc = "loop"
    /\ i = 4
    /\ parsedLines[1].Type = "DialogHeader" /\ ReportedAt(DialogWithoutScene, 1)
    /\ parsedLines[2].Type = "Scene"
    /\ parsedLines[3].Type = "DialogHeader"
    /\ parsedLines[4].Type = "DialogHeader"
    /\ Len(errors) = 1
    /\ inDialog

(***************************************************************************)
(* C4.  A Level, Location or Characters line has exactly one outcome, in   *)
(* this priority: the OutsideScene diagnostic if no scene is open; else    *)
(* the AfterDialog diagnostic if inDialog; else the Duplicate diagnostic   *)
(* if its has-flag is set; else it is accepted, with no diagnostic, and    *)
(* its flag becomes true.  An error outcome changes nothing of the         *)
(* context.                                                                *)
(***************************************************************************)
MetadataKinds == {"Level", "Location", "Characters"}

C4_MetadataPriority ==
    [][(Stepping /\ Event.Type \in MetadataKinds)
         => IF currentScene = 0
            THEN EmitsOne(OutsideSceneMessage(Event.Type)) /\ UNCHANGED ctxVars
            ELSE IF inDialog
            THEN EmitsOne(AfterDialogMessage(Event.Type)) /\ UNCHANGED ctxVars
            ELSE IF HasFlag(Event.Type)
            THEN EmitsOne(DuplicateMessage(Event.Type)) /\ UNCHANGED ctxVars
            ELSE EmitsNothing /\ HasFlagAfter(Event.Type)]_vars

\* a Location line was rejected outside the scene, the next one was accepted in
\* the scene, and the one after that was a duplicate
C4_Witness ==
    /\ pc = "loop"
    /\ i = 4
    /\ ReportedAt(OutsideSceneMessage("Location"), 1)
    /\ parsedLines[3].Type = "Location"
    /\ hasLocation
    /\ ReportedAt(DuplicateMessage("Location"), 4)
    /\ Len(errors) = 2

(***************************************************************************)
(* C5.  A dialog line processed while inDialog is false (outside any       *)
(* scene, or in a scene before the first accepted dialog header) emits     *)
(* exactly one StrayDialogLine diagnostic, no UnknownCharacter and no      *)
(* MissingClosingBrace diagnostic, and leaves the context unchanged.       *)
(***************************************************************************)
C5_StrayDialogLine ==
    [][(Stepping /\ Event.Type = "Dialog" /\ ~inDialog)
         => /\ EmitsOne(StrayDialogLine)
            /\ EmittedMessages = <<StrayDialogLine>>
            /\ UNCHANGED ctxVars]_vars

\* a dialog line whose name is not declared was processed in the scene, before
\* any dialog header, and only the stray-line diagnostic was emitted
C5_Witness ==
    /\ pc = "loop"
    /\ i >= 1
    /\ parsedLines[i].Type = "Dialog"
    /\ InScene
    /\ knownCharacters # {}
    /\ parsedLines[i].CharacterName \notin knownCharacters
    /\ ReportedAt(StrayDialogLine, i)
    /\ ~Reported(UnknownCharacterMessage)

(***************************************************************************)
(* C6.  A dialog line processed while inDialog is true emits an            *)
(* UnknownCharacter diagnostic if and only if the known-character set is   *)
(* non-empty and the line's name is not a member of it under               *)
(* case-sensitive string equality; with an empty set no name is rejected.  *)
(***************************************************************************)
\* the step emits exactly one diagnostic with this message
EmitsMessageOnce(message) ==
    Cardinality({k \in DOMAIN EmittedMessages : EmittedMessages[k] = message}) = 1

\* the step emits no diagnostic with this message
EmitsNoMessage(message) ==
    \A k \in DOMAIN EmittedMessages : EmittedMessages[k] # message

C6_UnknownCharacter ==
    [][(Stepping /\ Event.Type = "Dialog" /\ inDialog)
         => /\ SubSeq(errors', 1, Len(errors)) = errors
            /\ IF /\ knownCharacters # {}
                  /\ \A known \in knownCharacters : known # Event.CharacterName
               THEN EmitsMessageOnce(UnknownCharacterMessage)
               ELSE EmitsNoMessage(UnknownCharacterMessage)]_vars

\* the name b was rejected in a dialog whose scene declares the character B
C6_Witness ==
    /\ pc = "loop"
    /\ i >= 1
    /\ inDialog
    /\ parsedLines[i].Type = "Dialog"
    /\ parsedLines[i].CharacterName = "b"
    /\ "B" \in knownCharacters
    /\ ReportedAt(UnknownCharacterMessage, i)

(***************************************************************************)
(* C7.  A blank line emits a BlankLineInDialogBlock diagnostic if and only *)
(* if inDialog is true, a next line exists, and that next line is          *)
(* classified neither as a dialog header, nor as a comment, nor as any     *)
(* error kind.  A blank last line, a blank line followed by an error       *)
(* line, and a blank line outside a dialog emit nothing.                   *)
(***************************************************************************)
\* the error kinds of LineType
ErrorKinds ==
    {"ErrorEmptyName", "ErrorMissingColon", "ErrorInvalidDialogFormat",
     "ErrorUnknownCharacter", "ErrorTypoScene", "ErrorTypoDialog",
     "ErrorTypoLevel", "ErrorTypoLocation", "ErrorTypoCharacters",
     "ErrorUnclosedBracket", "ErrorExtraSpaceInHeader",
     "ErrorExtraSpaceInMetadata", "ErrorLeadingSpace",
     "ErrorNoSpaceAfterColon", "ErrorEmptyText", "ErrorMetaNotAtEnd"}

\* a next line exists and it is an ordinary line of a dialog block
NextLineBreaksBlock ==
    /\ i + 2 <= Len(lines)
    /\ Classify(lines[i + 2], i + 2).Type \notin
           {"DialogHeader", "Comment"} \cup ErrorKinds

C7_BlankLineInDialogBlock ==
    [][(Stepping /\ Event.Type = "Empty")
         => IF inDialog /\ NextLineBreaksBlock
            THEN EmitsOne(BlankLineInDialogBlock) /\ UNCHANGED ctxVars
            ELSE EmitsNothing /\ UNCHANGED ctxVars]_vars

\* in a dialog, a blank line followed by an error line was passed without a
\* blank-line diagnostic
C7_Witness ==
    /\ pc = "loop"
    /\ i = 4
    /\ inDialog
    /\ parsedLines[3].Type = "Empty"
    /\ parsedLines[4].Type \in ErrorKinds
    /\ ~Reported(BlankLineInDialogBlock)
    /\ Len(errors) = 1

(***************************************************************************)
(* C8.  A comment line never emits a diagnostic and leaves every field of  *)
(* the context unchanged, whether it is processed outside any scene, in a  *)
(* scene or in a dialog.                                                   *)
(***************************************************************************)
C8_CommentIsInert ==
    [][(Stepping /\ Event.Type = "Comment")
         => EmitsNothing /\ UNCHANGED ctxVars]_vars

\* comments were processed outside the scene and in the dialog, with no diagnostic
C8_Witness ==
    /\ pc = "loop"
    /\ i = 4
    /\ parsedLines[1].Type = "Comment"
    /\ parsedLines[2].Type = "Scene"
    /\ parsedLines[3].Type = "DialogHeader"
    /\ parsedLines[4].Type = "Comment"
    /\ InDialog
    /\ Len(errors) = 0

(***************************************************************************)
(* C9.  Every line that the classifier maps to one of the error kinds      *)
(* EmptyName, EmptyText, NoSpaceAfterColon, MetaNotAtEnd, UnclosedBracket, *)
(* ExtraSpaceInHeader, LeadingSpace, TypoScene, TypoDialog, TypoLevel,     *)
(* TypoLocation, TypoCharacters causes exactly one diagnostic to be        *)
(* emitted for that line, in every state of the validator, and leaves the  *)
(* context unchanged.                                                      *)
(***************************************************************************)
PreClassifiedErrorKinds ==
    {"ErrorEmptyName", "ErrorEmptyText", "ErrorNoSpaceAfterColon",
     "ErrorMetaNotAtEnd", "ErrorUnclosedBracket", "ErrorExtraSpaceInHeader",
     "ErrorLeadingSpace", "ErrorTypoScene", "ErrorTypoDialog",
     "ErrorTypoLevel", "ErrorTypoLocation", "ErrorTypoCharacters"}

\* the step emits exactly one diagnostic, for the line processed
EmitsOneForLine ==
    /\ Len(errors') = Len(errors) + 1
    /\ SubSeq(errors', 1, Len(errors)) = errors
    /\ errors'[Len(errors')].LineNumber = i + 1

C9_ErrorKindsReportedOnce ==
    [][(Stepping /\ Event.Type \in PreClassifiedErrorKinds)
         => EmitsOneForLine /\ UNCHANGED ctxVars]_vars

(***************************************************************************)
(* C10.  After the last line, the validator emits exactly one diagnostic   *)
(* for each of hasScene, hasLevel, hasLocation, hasCharacters that is      *)
(* false, in that order, each with the total line count as its line        *)
(* number, and after every per-line diagnostic.  A file whose only line is *)
(* an accepted scene header yields exactly three diagnostics: missing      *)
(* Level, Location and Characters, all at line 1.                          *)
(***************************************************************************)
\* the messages of the requirements that are missing, in order
MissingMessages ==
    SelectSeq(<<[missing |-> ~hasScene,      message |-> "Missing [Scene.X]"],
                [missing |-> ~hasLevel,      message |-> "Missing Level"],
                [missing |-> ~hasLocation,   message |-> "Missing Location"],
                [missing |-> ~hasCharacters, message |-> "Missing Characters"]>>,
              LAMBDA requirement : requirement.missing)

C10_FinalRequirements ==
    /\ [][(pc = "loop" /\ pc' = "done")
            => /\ i = Len(lines)
               /\ SubSeq(errors', 1, Len(errors)) = errors
               /\ EmittedMessages =
                      [k \in DOMAIN MissingMessages |-> MissingMessages[k].message]
               /\ \A k \in (Len(errors) + 1)..Len(errors') :
                      errors'[k].LineNumber = Len(lines)
               /\ UNCHANGED ctxVars]_vars
    /\ []((pc = "done" /\ Len(lines) = 1 /\ parsedLines[1].Type = "Scene"
              /\ parsedLines[1].Number > 0)
            => /\ [k \in 1..Len(errors) |-> errors[k].Message] =
                      <<"Missing Level", "Missing Location", "Missing Characters">>
               /\ \A k \in 1..Len(errors) : errors[k].LineNumber = 1)

\* a file of four lines ended with one per-line diagnostic followed by two
\* missing requirements, both at line 4
C10_Witness ==
    /\ pc = "done"
    /\ Len(lines) = 4
    /\ hasScene /\ hasLevel /\ ~hasLocation /\ ~hasCharacters
    /\ Len(errors) = 3
    /\ errors[1].LineNumber < 4
    /\ errors[2].Message = "Missing Location" /\ errors[2].LineNumber = 4
    /\ errors[3].Message = "Missing Characters" /\ errors[3].LineNumber = 4

(***************************************************************************)
(* C11.  For every input of n lines, whatever diagnostics are emitted, a   *)
(* compile run terminates after classifying and validating all n lines     *)
(* exactly once, in input order: the result holds exactly n line events    *)
(* whose line numbers are 1..n in order, and TotalLines = n.               *)
(***************************************************************************)
\* Compile has returned a result that covers every line of the input once
AllLinesProcessed ==
    /\ pc = "done"
    /\ totalLines = Len(lines)
    /\ Len(parsedLines) = Len(lines)
    /\ \A k \in 1..Len(lines) :
           /\ parsedLines[k].LineNumber = k
           /\ parsedLines[k].OriginalContent = lines[k]

C11_EveryLineProcessedOnce == <>AllLinesProcessed

(***************************************************************************)
(* C12.  A file in the shape of the README example compiles cleanly: one   *)
(* scene header with a positive number, then exactly one Level, one        *)
(* Location and one Characters line, then a dialog header with a positive  *)
(* number, then dialog lines `Name: Text` or `Name: Text {meta}` whose      *)
(* names all belong to the Characters list, with optional comment lines    *)
(* and with blank lines only before the dialog header.  Such a file yields *)
(* Success, zero diagnostics and one line event per line, whose kinds      *)
(* follow the lines in order.                                              *)
(*                                                                         *)
(* As stated the property fails: the classifier tests a line for a         *)
(* misspelt metadata keyword before it reads it as a dialog line, so a     *)
(* dialog line whose name begins with leve, locatio or character is an     *)
(* error line.  It holds for names that do not begin so.                   *)
(***************************************************************************)
\* the lines of each form, by how they are written
SceneHeaderLines == {"[Scene.1]"}

DialogHeaderLines == {"[Dialog.1]"}

CommentLines == {"// c"}

BlankLines == {""}

\* the kind the line is written as
WrittenKind(line) ==
    CASE line \in SceneHeaderLines       -> "Scene"
      [] line \in DialogHeaderLines      -> "DialogHeader"
      [] line \in CommentLines           -> "Comment"
      [] line \in BlankLines             -> "Empty"
      [] StartsWith(line, "Level:")      -> "Level"
      [] StartsWith(line, "Location:")   -> "Location"
      [] StartsWith(line, "Characters:") -> "Characters"
      [] OTHER                           -> "Dialog"

\* the name written before the colon of a dialog line
WrittenName(line) == Upto(line, IndexOf(line, ":"))

\* the names written in a Characters line
WrittenCharacters(line) ==
    LET list == From(line, Len("Characters:"))
    IN  {Trim(Split(list)[k]) : k \in 1..Len(Split(list))} \ {""}

\* the file without its comment lines and blank lines
Essential(file) ==
    SelectSeq(file, LAMBDA line : line \notin CommentLines \cup BlankLines)

\* the shape of the README example
ExampleShape(file) ==
    LET core == Essential(file)
    IN  /\ Len(core) >= 5
        /\ WrittenKind(core[1]) = "Scene"
        /\ {WrittenKind(core[k]) : k \in 2..4} = {"Level", "Location", "Characters"}
        /\ WrittenKind(core[5]) = "DialogHeader"
        /\ \A k \in 6..Len(core) :
               /\ WrittenKind(core[k]) = "Dialog"
               /\ \E c \in 2..4 :
                      /\ WrittenKind(core[c]) = "Characters"
                      /\ WrittenName(core[k]) \in WrittenCharacters(core[c])
        /\ \A k \in 1..Len(file) :
               file[k] \in BlankLines
                   => \E h \in (k + 1)..Len(file) : file[h] \in DialogHeaderLines

\* the name of the line begins like a misspelt metadata keyword
NameLikeKeyword(line) ==
    \/ StartsWithIgnoreCase(line, "leve")
    \/ StartsWithIgnoreCase(line, "locatio")
    \/ StartsWithIgnoreCase(line, "character")

\* no dialog line of the file has such a name
NoNameLikeKeyword(file) ==
    \A k \in 1..Len(file) :
        WrittenKind(file[k]) = "Dialog" => ~NameLikeKeyword(file[k])

\* the result of a clean compile: no diagnostic, one event per line, in order
CleanResult ==
    /\ CompileSuccess
    /\ Len(errors) = 0
    /\ Len(parsedLines) = Len(lines)
    /\ \A k \in 1..Len(lines) : parsedLines[k].Type = WrittenKind(lines[k])

C13_DiagnosticsOrdered ==
    \A k \in 1..(Len(errors) - 1) :
        errors[k].LineNumber <= errors[k + 1].LineNumber

\* a run has ended with diagnostics of two different lines followed by two
\* end-of-file diagnostics
C13_Witness ==
    /\ pc = "done"
    /\ Len(lines) = 4
    /\ Len(errors) = 4
    /\ errors[1].LineNumber = 2
    /\ errors[2].LineNumber = 3
    /\ errors[3].LineNumber = 4 /\ errors[3].Message = "Missing Level"
    /\ errors[4].LineNumber = 4 /\ errors[4].Message = "Missing Characters"

(***************************************************************************)
(* C19.  The classifier is total: for every input line, header lines       *)
(* `[Scene.N]` and `[Dialog.N]` whose N exceeds the range of a 32-bit       *)
(* integer included, it terminates and returns exactly one kind of the     *)
(* closed set, and never raises an exception.                              *)
(***************************************************************************)
\* the members of LineType
LineTypes ==
    {"Empty", "Comment", "Scene", "DialogHeader", "Level", "Location",
     "Characters", "Dialog", "Unknown"} \cup ErrorKinds

C19_ClassifyTotal ==
    [][Stepping => (Event.Type \in LineTypes /\ pc' # "thrown")]_vars

(***************************************************************************)
(* C20.  A dialog line with a non-empty name whose colon is immediately    *)
(* followed by a non-whitespace character (`Alan:Hello`), processed inside *)
(* an open dialog block, yields exactly one NoSpaceAfterColon diagnostic   *)
(* whose caret column is the colon's position in the line plus 1.          *)
(***************************************************************************)
NoSpaceAfterColon == "Missing space after ':'"

\* the line is written as a name, a colon and a non-blank character after it
WrittenWithoutSpace(line) ==
    /\ IndexOf(line, ":") > 0
    /\ IndexOf(line, ":") + 1 < Len(line)
    /\ ~IsWhiteSpace(Ch(line, 1))
    /\ ~IsWhiteSpace(Ch(line, IndexOf(line, ":") + 2))
    /\ ~NameLikeKeyword(line)
    /\ ~StartsWith(line, "[")
    /\ ~StartsWith(line, "//")

C20_NoSpaceAfterColonCaret ==
    [][(Stepping /\ inDialog /\ WrittenWithoutSpace(lines[i + 1]))
         => /\ EmitsOne(NoSpaceAfterColon)
            /\ errors'[Len(errors')].ErrorPosition = IndexOf(lines[i + 1], ":") + 1]_vars

(***************************************************************************)
(* The C tool: auto_fix, the status of compile, concurrent compiles.       *)
(***************************************************************************)
\* the file auto_fix works on
FixedFile == disk[FileOf(1)]

\* invocation 1 has returned from a compile of the given content without a
\* diagnostic
ValidatedClean(file) ==
    /\ runs[1].pc = "returned"
    /\ runs[1].original_lines = file
    /\ runs[1].messages = << >>

\* C14: in every run of auto_fix the rewritten lines are written to the file
\* only after compile has been run on the rewritten content and has reported no
\* diagnostic, and once auto_fix has returned, a file it rewrote is one on which
\* compile reported no diagnostic.
C14_WrittenOnlyAfterCleanRevalidation ==
    /\ [][disk' # disk => ValidatedClean(FixedFile')]_vars
    /\ [](fixer.pc = "returned" /\ FixedFile # fixer.lines => ValidatedClean(FixedFile))

\* C15: while auto_fix works on a file on which compile has just reported no
\* diagnostic, fix_line has returned 0 for every line so far and every fixed line
\* equals the original line.
C15_AutoFixIdempotent ==
    (fixer.pc \in {"fix", "written"} /\ ValidatedClean(fixer.lines))
        => /\ fixer.fixes_count = 0
           /\ \A n \in 1..Len(fixer.fixed_lines) : fixer.fixed_lines[n] = fixer.lines[n]

\* the names of a Characters list, as char_known reads them
RECURSIVE ListedNames(_)
ListedNames(characters) ==
    LET t == strtok(characters)
    IN  IF ~t.found THEN << >> ELSE <<Trim(t.token)>> \o ListedNames(t.save)

\* the listed name a dialog line's name is a near-match of, or ""
NearMatch(file, n) ==
    LET p      == ParseLine(file[n])
        listed == ListedNames(TrimStart(CharactersFor(file, n)))
    IN  IF p.type = "LINE_DIALOG" /\ \A k \in 1..Len(listed) : listed[k] # p.name
        THEN find_similar(p.name, listed)
        ELSE ""

\* the file with the name of line n rewritten to the listed name
NameRewritten(file, n) ==
    [file EXCEPT ![n] = NearMatch(file, n) \o From(file[n], IndexOf(file[n], ":"))]

\* the lines of a file whose name is a near-match, the file being valid but for
\* that name
TypoLines(file) ==
    {n \in 1..Len(file) : /\ NearMatch(file, n) # ""
                          /\ Diagnostics(NameRewritten(file, n)) = << >>}

\* C16: for a file that is valid but for a dialog line whose name is a near-match
\* of a listed name, compile reports Unknown character for that line, and once
\* auto_fix has returned, that line is the original with the name rewritten to
\* the listed name and compile of the rewritten file has reported no diagnostic.
C16_NearMatchNameFixed ==
    fixer.pc = "returned" =>
        \A n \in TypoLines(fixer.lines) :
            /\ \E k \in 1..Len(Diagnostics(fixer.lines)) :
                   Diagnostics(fixer.lines)[k] = <<n, "Unknown character", 0>>
            /\ fixer.fixed_lines[n] = NameRewritten(fixer.lines, n)[n]
            /\ runs[1].messages = << >>

\* C17: the status compile returns equals the number of diagnostics it emitted.
C17_StatusIsDiagnosticCount ==
    \A t \in Threads :
        runs[t].pc = "returned" =>
            /\ runs[t].error = Len(runs[t].messages)
            /\ runs[t].result = runs[t].error

\* C18: a compile that ran concurrently with another, each on its own file, has
\* reported exactly the diagnostics of a compile of its file run alone.
C18_ConcurrentCompilesIndependent ==
    \A t \in Threads :
        runs[t].pc = "returned" => runs[t].messages = Diagnostics(disk[FileOf(t)])

(***************************************************************************)
(* The classifier's rules on bracket headers, metadata keywords and dialog *)
(* lines.  Vocabulary: how a line is written, and the diagnostic a step    *)
(* has just added.                                                         *)
(***************************************************************************)
\* the line is written as a closed bracket header [Word.N]
WrittenHeader(line) ==
    /\ StartsWith(line, "[")
    /\ IndexOf(line, "]") = Len(line) - 1
    /\ IndexOf(line, ".") > 1

\* the diagnostic the step has added last
Emitted == errors'[Len(errors')]

TypoScene == "Did you mean [Scene.N]?"

TypoDialog == "Did you mean [Dialog.N]?"

\* the lines whose header word is a near-miss of Scene under the
\* typo-correction heuristic, which excludes the word Scene itself in any
\* letter case
NearMissOfScene ==
    {line \in ClassifyLines :
        WrittenHeader(line) /\ find_similar_header(HeaderWord(line)) = "Scene"}

\* the lines written without a blank
WithoutSpace == {line \in ClassifyLines : ~Contains(line, " ")}

UnknownSyntax == "Unknown syntax"

InvalidLineInDialog == "Invalid line in dialog"

C22_UnknownEvent ==
    [][(Stepping /\ Event.Type = "Unknown")
         => /\ inDialog => EmitsOne(InvalidLineInDialog)
            /\ ~inDialog => EmitsOne(UnknownSyntax)
            /\ UNCHANGED ctxVars]_vars

\* an unknown line has been processed inside a dialog of a scene
C22_Witness ==
    /\ pc = "loop" /\ i = 3
    /\ parsedLines[3].Type = "Unknown"
    /\ InDialog
    /\ [k \in 1..Len(errors) |-> <<errors[k].LineNumber, errors[k].Message>>]
           = <<<<3, InvalidLineInDialog>>>>

(***************************************************************************)
(* C23.  The known-character set is set only by the first accepted         *)
(* Characters line of the scene, to the set of the comma-separated entries *)
(* of its value, trimmed, the empty ones discarded; every later Characters *)
(* event (rejected as duplicate, after dialog, or outside scene) and every *)
(* other event that is not a scene header leaves the set unchanged.        *)
(***************************************************************************)
\* the entries written after the colon of each Characters line
WrittenEntries ==
    Tabulated([line \in {"Characters: A, B", "characters: C,, A"} |->
                   WrittenCharacters(line)])

\* the step accepts a Characters line
AcceptsCharacters ==
    /\ Stepping
    /\ Event.Type = "Characters"
    /\ InScene /\ ~hasCharacters

C23_KnownCharactersSetOnce ==
    [][/\ AcceptsCharacters => knownCharacters' = WrittenEntries[lines[i + 1]]
       /\ (Stepping /\ ~AcceptsCharacters /\ Event.Type # "Scene")
             => UNCHANGED knownCharacters]_vars

\* a second Characters line, with other names, has been rejected as a
\* duplicate and the set is that of the first
C23_Witness ==
    /\ pc = "loop" /\ i = 3
    /\ lines = <<"[Scene.1]", "characters: C,, A", "Characters: A, B">>
    /\ knownCharacters = {"C", "A"}
    /\ ReportedAt(DuplicateMessage("Characters"), 3)

(***************************************************************************)
(* C24.  For a closed bracket header `[Word.N]` with no internal space     *)
(* whose Word is not Scene or Dialog, the classifier's result is the       *)
(* TypoCorrector's: TypoDialog exactly when suggest(Word, {Scene, Dialog}) *)
(* returns Dialog, TypoScene when it returns Scene, and the generic        *)
(* TypoScene only when it returns none (`[Dialo.1]` is a TypoDialog).      *)
(***************************************************************************)
\* the closed headers with no internal space whose word is neither keyword
MisspeltHeaders ==
    {line \in WithoutSpace :
        WrittenHeader(line) /\ ToLower(HeaderWord(line)) \notin {"scene", "dialog"}}

\* the kind the TypoCorrector's answer stands for
SuggestedKind ==
    Tabulated([line \in MisspeltHeaders |->
                   IF find_similar_header(HeaderWord(line)) = "Dialog"
                   THEN "ErrorTypoDialog"
                   ELSE "ErrorTypoScene"])

C24_HeaderTypoIsSuggestion ==
    [][(Stepping /\ lines[i + 1] \in MisspeltHeaders)
         => Event.Type = SuggestedKind[lines[i + 1]]]_vars

(***************************************************************************)
(* C25.  A header `[Scene.N]` or `[Dialog.N]` with N <= 0 is never         *)
(* classified as a scene or dialog header: it yields the TypoScene (resp.  *)
(* TypoDialog) error and a diagnostic whose caret column is 7 (resp. 8);   *)
(* so every scene or dialog header event that reaches the validator        *)
(* carries a number >= 1, and a non-positive header opens no scene and no  *)
(* dialog.                                                                 *)
(***************************************************************************)
\* the headers numbered zero, with the kind and the caret column required
NonPositiveHeaders ==
    [line \in {"[Scene.0]", "[Dialog.0]"} |->
        IF line = "[Scene.0]"
        THEN [kind |-> "ErrorTypoScene", message |-> TypoScene, caret |-> 7]
        ELSE [kind |-> "ErrorTypoDialog", message |-> TypoDialog, caret |-> 8]]

C25_NonPositiveHeaderRejected ==
    [][/\ (Stepping /\ lines[i + 1] \in DOMAIN NonPositiveHeaders)
           => /\ Event.Type = NonPositiveHeaders[lines[i + 1]].kind
              /\ EmitsOne(NonPositiveHeaders[lines[i + 1]].message)
              /\ Emitted.ErrorPosition = NonPositiveHeaders[lines[i + 1]].caret
              /\ UNCHANGED ctxVars
       /\ (Stepping /\ Event.Type \in {"Scene", "DialogHeader"})
           => Event.Number >= 1]_vars

(***************************************************************************)
(* C26.  Every line that starts with `[` and contains no `]` (`[Scene.1`   *)
(* and `[Dialog.2`, with a valid word and number, included) is classified  *)
(* as UnclosedBracket with the caret at the end of the line, is never      *)
(* accepted as a scene or dialog header, and changes no validator state.   *)
(***************************************************************************)
\* the lines given to the C tool that open a bracket and do not close it
UnclosedHeaders == {line \in FixLines : StartsWith(line, "[") /\ ~Contains(line, "]")}

\* the flags and the list an invocation of compile validates with
ValidatorState(r) ==
    <<r.scene, r.dialog, r.characters, r.has_scene, r.has_level, r.has_location,
      r.has_chars>>

\* invocation t of compile processes a line, an unclosed header
ProcessesUnclosedHeader(t) ==
    /\ runs[t].pc = "loop"
    /\ runs[t].i < runs[t].total_lines
    /\ runs[t].original_lines[runs[t].i + 1] \in UnclosedHeaders
    /\ runs'[t].i = runs[t].i + 1

C26_UnclosedHeaderRejected ==
    [][\A t \in Threads :
          ProcessesUnclosedHeader(t)
            => /\ runs'[t].p.type = "LINE_ERROR_UNCLOSED_BRACKET"
               /\ runs'[t].messages =
                      Append(runs[t].messages,
                             <<runs[t].i + 1, "Missing ']'",
                               Len(runs[t].original_lines[runs[t].i + 1])>>)
               /\ ValidatorState(runs'[t]) = ValidatorState(runs[t])]_vars

(***************************************************************************)
(* C27.  Every line whose trimmed form begins with `Level:`, `Location:`   *)
(* or `Characters:`, in any letter case, is classified as the metadata     *)
(* kind of that keyword, with the trimmed remainder after the colon as its *)
(* value, also when that remainder is empty; such a line is never          *)
(* classified as a dialog line or as a dialog-line error.                  *)
(***************************************************************************)
\* the keyword a line begins with, if any
WrittenKeyword(line) ==
    {kind \in MetadataKinds : StartsWithIgnoreCase(Trim(line), kind \o ":")}

\* the lines that begin with a keyword, with the kind and the value required
KeywordLines ==
    Tabulated([line \in {l \in ClassifyLines : WrittenKeyword(l) # {}} |->
                   [kind  |-> The(WrittenKeyword(line)),
                    value |-> Trim(From(Trim(line), Len(The(WrittenKeyword(line))) + 1))]])

C27_KeywordLineIsMetadata ==
    [][(Stepping /\ lines[i + 1] \in DOMAIN KeywordLines)
         => /\ Event.Type = KeywordLines[lines[i + 1]].kind
            /\ Event.Value = KeywordLines[lines[i + 1]].value]_vars

(***************************************************************************)
(* C28.  A line that is neither a header nor a metadata line and whose     *)
(* only colons lie inside a `{...}` block is classified as Unknown; the    *)
(* name of a dialog line is what stands before the first colon outside any *)
(* `{...}` block.                                                          *)
(***************************************************************************)
\* position k of the text lies inside a `{...}` block
InsideBlock(text, k) ==
    Cardinality({j \in 1..(k - 1) : Ch(text, j) = "{"})
        > Cardinality({j \in 1..(k - 1) : Ch(text, j) = "}"})

\* the 1-based positions of the colons outside every block
OutsideColons(text) ==
    {k \in 1..Len(text) : Ch(text, k) = ":" /\ ~InsideBlock(text, k)}

\* the lines that go to the dialog rule: not blank, not a comment, not
\* starting with a bracket or with a keyword
DialogRuleLines ==
    {l \in ClassifyLines :
        /\ Len(Trim(l)) > 0
        /\ ~StartsWith(Trim(l), "//")
        /\ ~StartsWith(Trim(l), "[")
        /\ WrittenKeyword(l) = {}}

ColonOnlyInBlock ==
    {l \in DialogRuleLines : Contains(l, ":") /\ OutsideColons(Trim(l)) = {}}

FirstOutsideColon(text) ==
    CHOOSE k \in OutsideColons(text) : \A j \in OutsideColons(text) : k <= j

\* the name written before the first colon outside a block
NameBeforeColon ==
    Tabulated([l \in {d \in DialogRuleLines : OutsideColons(Trim(d)) # {}} |->
                   Trim(Upto(Trim(l), FirstOutsideColon(Trim(l)) - 1))])

C28_ColonOutsideBlocks ==
    [][Stepping =>
         /\ lines[i + 1] \in ColonOnlyInBlock => Event.Type = "Unknown"
         /\ (lines[i + 1] \in DOMAIN NameBeforeColon /\ Event.Type = "Dialog")
               => Event.CharacterName = NameBeforeColon[lines[i + 1]]]_vars

(***************************************************************************)
(* C29.  For a dialog line whose text part contains `{`: if no `}` follows *)
(* the first `{`, the line is classified as UnclosedBracket with the caret *)
(* at the offset of that `{` in the raw line; else if anything but         *)
(* whitespace follows the closing `}`, it is classified as MetaNotAtEnd;   *)
(* else it is a Dialog event whose metadata is the `{...}` substring and   *)
(* whose text is the trimmed content before the `{`.                       *)
(***************************************************************************)
\* what follows the colon of a dialog line
AfterColonOf(line) == From(Trim(line), FirstOutsideColon(Trim(line)))

\* 0-based offset in the raw line of the first `{` of the text part
BraceOffset(line) ==
    FirstOutsideColon(Trim(line))
        + (Len(AfterColonOf(line)) - Len(TrimStart(AfterColonOf(line))))
        + IndexOf(Trim(AfterColonOf(line)), "{")

\* what the rule requires of a text part that contains `{`
TextPartRule(line, textPart) ==
    LET open  == IndexOf(textPart, "{")
        close == IndexOfFrom(textPart, "}", open)
    IN  IF close < 0
        THEN [kind |-> "ErrorUnclosedBracket", caret |-> BraceOffset(line),
              metadata |-> "", text |-> ""]
        ELSE IF Len(Trim(From(textPart, close + 1))) > 0
        THEN [kind |-> "ErrorMetaNotAtEnd", caret |-> -1,
              metadata |-> "", text |-> ""]
        ELSE [kind |-> "Dialog", caret |-> -1,
              metadata |-> SubSeq(textPart, open + 1, close + 1),
              text |-> Trim(Upto(textPart, open))]

\* the well-formed dialog lines whose text part contains `{`
BracedDialogLines ==
    Tabulated([line \in {l \in DOMAIN NameBeforeColon :
                            /\ l = Trim(l)
                            /\ Len(NameBeforeColon[l]) > 0
                            /\ StartsWith(AfterColonOf(l), " ")
                            /\ Contains(AfterColonOf(l), "{")} |->
                   TextPartRule(line, Trim(AfterColonOf(line)))])

C29_MetadataBlock ==
    [][(Stepping /\ lines[i + 1] \in DOMAIN BracedDialogLines)
         => /\ Event.Type = BracedDialogLines[lines[i + 1]].kind
            /\ Event.ErrorPosition = BracedDialogLines[lines[i + 1]].caret
            /\ Event.Type = "Dialog"
                  => /\ Event.Metadata = BracedDialogLines[lines[i + 1]].metadata
                     /\ Event.Text = BracedDialogLines[lines[i + 1]].text]_vars

(***************************************************************************)
(* C30.  The pre-filter of the corrector rejects a candidate exactly when  *)
(* it equals the input but for letter case, or when the two lengths differ *)
(* by more than 2; every other candidate, of whatever length (0 and 1,     *)
(* where `len_exp - 2` wraps, included), is passed on to the similarity    *)
(* score.                                                                  *)
(***************************************************************************)
\* the candidate of the turn about to be taken
Candidate == Trim(suggest.t.token)

LengthsApart(a, b) == IF a > b THEN a - b ELSE b - a

C30_PreFilter ==
    [][(suggest.pc = "loop" /\ suggest.t.found)
         => (suggest'.at # "score"
               <=> \/ ToLower(Candidate) = ToLower(suggest.name)
                   \/ LengthsApart(Len(suggest.name), Len(Candidate)) > 2)]_vars

(***************************************************************************)
(* C31.  The corrector returns the first candidate, in list order, that    *)
(* passes the pre-filter and whose score (the percentage of positions at   *)
(* which the two words hold the same letter but for case, over the length  *)
(* of the shorter word) is above 20% for a candidate of length <= 4 and    *)
(* above 60% otherwise; it returns none exactly when no candidate does.    *)
(***************************************************************************)
\* the candidates of a list, in order, as the corrector trims them
RECURSIVE CandidatesOf(_)
CandidatesOf(list) ==
    IF strtok(list).found
    THEN <<Trim(strtok(list).token)>> \o CandidatesOf(strtok(list).save)
    ELSE << >>

PassesPreFilter(input, candidate) ==
    /\ ToLower(candidate) # ToLower(input)
    /\ LengthsApart(Len(input), Len(candidate)) <= 2

\* the score over the shorter word is above the threshold of the candidate
ClearsThreshold(input, candidate) ==
    LET shorter == IF Len(input) < Len(candidate) THEN Len(input) ELSE Len(candidate)
        matches == Cardinality({k \in 1..shorter :
                        ToLowerChar(Ch(input, k)) = ToLowerChar(Ch(candidate, k))})
    IN  matches * 100 > (IF Len(candidate) <= 4 THEN 20 ELSE 60) * shorter

\* the first candidate that qualifies, or "" for none
FirstQualifying(input, list) ==
    LET candidates == CandidatesOf(list)
        qualifying == {k \in 1..Len(candidates) :
                          /\ PassesPreFilter(input, candidates[k])
                          /\ ClearsThreshold(input, candidates[k])}
    IN  IF qualifying = {} THEN ""
        ELSE candidates[CHOOSE k \in qualifying : \A j \in qualifying : k <= j]

C31_FirstQualifyingCandidate ==
    suggest.pc = "done"
        => suggest.correct_name = FirstQualifying(suggest.name, suggest.characters)

(***************************************************************************)
(* C32.  In every reachable state of a compile: hasScene holds exactly     *)
(* when currentScene is not 0; inDialog implies hasScene; each of          *)
(* hasLevel, hasLocation and hasCharacters implies hasScene; and a         *)
(* non-empty set of known characters implies hasCharacters.                *)
(***************************************************************************)
C32_FlagsConsistent ==
    /\ hasScene <=> currentScene # 0
    /\ inDialog => hasScene
    /\ hasLevel => hasScene
    /\ hasLocation => hasScene
    /\ hasCharacters => hasScene
    /\ knownCharacters # {} => hasCharacters

\* a dialog block is open in a scene whose level and characters are set
C32_Witness ==
    /\ hasScene /\ hasLevel /\ hasCharacters /\ inDialog
    /\ currentScene = 1
    /\ knownCharacters = {"A", "B"}

(***************************************************************************)
(* C33.  Within one compile inDialog, hasScene, hasLevel, hasLocation and  *)
(* hasCharacters are monotone: once true, each stays true for every later  *)
(* line (an accepted scene header never finds inDialog true); so no Level, *)
(* Location or Characters line is accepted after the first accepted dialog *)
(* header.                                                                 *)
(***************************************************************************)
C33_FlagsMonotone ==
    [][/\ inDialog => inDialog'
       /\ hasScene => hasScene'
       /\ hasLevel => hasLevel'
       /\ hasLocation => hasLocation'
       /\ hasCharacters => hasCharacters'
       /\ (Stepping /\ inDialog /\ Event.Type \in MetadataKinds)
            => EmitsOne(AfterDialogMessage(Event.Type)) /\ UNCHANGED ctxVars]_vars

\* a scene header and a Level line were met in a dialog block, which is open
C33_Witness ==
    /\ inDialog /\ hasScene /\ ~hasLevel
    /\ Reported(DuplicateScene)
    /\ Reported(AfterDialogMessage("Level"))

(***************************************************************************)
(* C34.  Every dialog line the classifier hands to the validator has no    *)
(* metadata or metadata that holds a closing `}`; so the validator never   *)
(* emits its "Missing '}' in metadata" diagnostic, and no line gets more   *)
(* than one diagnostic of its own.                                         *)
(***************************************************************************)
\* the diagnostics invocation r of compile has emitted for line n
LineDiagnostics(r, n) == {k \in 1..Len(r.messages) : r.messages[k][1] = n}

\* while the loop runs, the final checks have added nothing to the messages
C34_MetadataClosed ==
    \A t \in Threads :
        /\ runs[t].p.type = "LINE_DIALOG"
              => (~runs[t].p.hasMeta \/ Contains(runs[t].p.meta, "}"))
        /\ \A k \in 1..Len(runs[t].messages) :
              runs[t].messages[k][2] # MissingClosingBraceMessage
        /\ runs[t].pc \in {"loop", "char_known"}
              => \A n \in 1..runs[t].total_lines :
                     Cardinality(LineDiagnostics(runs[t], n)) <= 1

(***************************************************************************)
(* C35.  Every Dialog event the classifier produces has a non-empty name   *)
(* and a non-empty text; a line whose text part is a metadata block and    *)
(* nothing else (`Alan: {Emotion: happy}`) is classified as EmptyText, not *)
(* as Dialog.                                                              *)
(***************************************************************************)
\* the dialog lines whose text part begins with its metadata block
MetadataOnlyLines ==
    {l \in DOMAIN BracedDialogLines :
        BracedDialogLines[l].kind = "Dialog" /\ BracedDialogLines[l].text = ""}

C35_DialogHasNameAndText ==
    [][Stepping =>
         /\ Event.Type = "Dialog" => Event.CharacterName # "" /\ Event.Text # ""
         /\ lines[i + 1] \in MetadataOnlyLines => Event.Type = "ErrorEmptyText"]_vars

(***************************************************************************)
(* C36.  For every line of every file, the character list the fixer uses   *)
(* for the line (that of the nearest line at or before it that starts with *)
(* `Characters:`) denotes the same set of names as the validator's known   *)
(* characters at that line, also when the file holds a duplicate           *)
(* Characters line, one after a dialog header or one outside any scene.    *)
(***************************************************************************)
\* the names a list denotes
NamesOf(list) == {CandidatesOf(list)[k] : k \in 1..Len(CandidatesOf(list))} \ {""}

\* the list compile holds once it has validated the first n lines of a file
KnownAfter(file, n) == RunAlone(ReadRun(SubSeq(file, 1, n)), "").characters

C36_FixerListIsKnownCharacters ==
    (fixer.pc = "fix" /\ fixer.i < fixer.total_lines)
        => NamesOf(CharactersFor(fixer.lines, fixer.i + 1))
               = NamesOf(KnownAfter(fixer.lines, fixer.i + 1))

(***************************************************************************)
(* C37.  Every line the fixer rewrites as a misspelt metadata keyword (a   *)
(* line that starts with `Levl:`, `Lvl:`, `Locaton:`, `Locatin:`,          *)
(* `Chracters:` or `Characers:`) is classified as the TypoLevel,           *)
(* TypoLocation or TypoCharacters error of the keyword, never as a dialog  *)
(* line.                                                                   *)
(***************************************************************************)
\* the entries of the fixer's table that are misspellings, not letter case
Misspellings ==
    {n \in 1..Len(MetadataFixes) :
        ToLower(MetadataFixes[n][1]) # ToLower(MetadataFixes[n][2])}

\* the lines that start with a misspelt keyword, with the error kind of the
\* keyword meant
MisspeltKeywordLines ==
    Tabulated([line \in {l \in ClassifyLines :
                            \E n \in Misspellings : StartsWith(l, MetadataFixes[n][1])} |->
                   "ErrorTypo" \o
                       Upto(MetadataFixes[CHOOSE n \in Misspellings :
                                              StartsWith(line, MetadataFixes[n][1])][2],
                            Len(MetadataFixes[CHOOSE n \in Misspellings :
                                              StartsWith(line, MetadataFixes[n][1])][2]) - 1)])

C37_MisspeltKeywordIsTypo ==
    [][(Stepping /\ lines[i + 1] \in DOMAIN MisspeltKeywordLines)
         => Event.Type = MisspeltKeywordLines[lines[i + 1]]]_vars

(***************************************************************************)
(* C38.  fix_line applies at most one rewrite rule to a line in a pass,    *)
(* the first that fires in the order header typo, metadata-keyword typo,   *)
(* missing space after colon, metadata not at end, character-name typo; a  *)
(* line that is empty or starts with `//` is never rewritten, and a line   *)
(* on which no rule fires is copied to the output unchanged.               *)
(***************************************************************************)
\* the rules in their order, each applied to the line as it was read
RulesOn(line, characters, garbage) ==
    <<fix_header_typos(line), fix_metadata_typos(line),
      fix_missing_space_after_colon(line), fix_metadata_position(line),
      fix_character_name_typos(line, characters, garbage)>>

\* what one rule at most, the first that fires, makes of the line
OneRule(line, rules) ==
    IF line = "" \/ StartsWith(line, "//") \/ \A k \in 1..Len(rules) : ~rules[k].fired
    THEN NotFixed(line)
    ELSE rules[CHOOSE k \in 1..Len(rules) :
                   rules[k].fired /\ \A j \in 1..(k - 1) : ~rules[j].fired]

\* for each line and list, the outcomes the rule allows, one for each content
\* of the storage the name is copied into
OneRuleTable ==
    Tabulated([input \in PoolLines \X PoolLists |->
                   {OneRule(input[1], RulesOn(input[1], input[2], garbage)) :
                        garbage \in StackGarbage}])

C38_OneRulePerLine ==
    [][(fixer.pc = "fix" /\ fixer.i < fixer.total_lines /\ fixer'.i = fixer.i + 1)
         => \E out \in OneRuleTable[<<fixer.lines[fixer.i + 1],
                                       CharactersFor(fixer.lines, fixer.i + 1)>>] :
                /\ fixer'.fixed_lines = Append(fixer.fixed_lines, out.fixed)
                /\ fixer'.fixes_count = fixer.fixes_count + (IF out.fired THEN 1 ELSE 0)]_vars

\* a line that lacks the space and misspells the name has got the space only,
\* and a comment has been copied
C38_Witness ==
    /\ fixer.pc = "fix" /\ fixer.i = fixer.total_lines /\ fixer.i = 7
    /\ fixer.lines[6] = "Alann:Hi" /\ fixer.fixed_lines[6] = "Alann: Hi"
    /\ fixer.lines[7] = "// c" /\ fixer.fixed_lines[7] = "// c"
    /\ fixer.fixes_count = 1

(***************************************************************************)
(* C39.  When the fixer finds no line to rewrite (fixes_count = 0) it      *)
(* never opens the file for writing, so the file is unchanged, and it      *)
(* returns 0 exactly when the validator reports no diagnostic on the       *)
(* unchanged file, and 1 otherwise.                                        *)
(***************************************************************************)
\* auto_fix is past its loop and has rewritten no line
NothingToFix ==
    /\ fixer.pc \in {"fix", "compile", "returned"}
    /\ fixer.i = fixer.total_lines
    /\ fixer.fixes_count = 0

C39_NoFixNoWrite ==
    NothingToFix
        => /\ disk[FileOf(1)] = fixer.lines
           /\ fixer.pc = "returned"
                 => fixer.result = (IF Len(runs[1].messages) = 0 THEN 0 ELSE 1)
====
